---- MODULE Spec2Model ----
(***************************************************************************)
(* QRIS EventHub: the QR payload codec (src/src/qris-converter.js,         *)
(* qris-converter.js) and the payment reconciliation engine                *)
(* (src/src/worker.js, qris-integration.js) over the store of schema.sql.  *)
(*                                                                         *)
(* Strings are TLA+ strings (Len, \o and SubSeq apply to them).  Every     *)
(* await on the store is one atomic step of the handler that issues it.    *)
(***************************************************************************)
EXTENDS Integers, Sequences, FiniteSets, TLC

(***************************************************************************)
(* String primitives of the JavaScript runtime.                            *)
(***************************************************************************)

charAt(s, i) == SubSeq(s, i, i)

DigitChars == "0123456789"
UpperChars == "ABCDEFGHIJKLMNOPQRSTUVWXYZ"
LowerChars == "abcdefghijklmnopqrstuvwxyz"

\* 1-based position of character c in the string chars, 0 when absent.
posIn(chars, c) ==
    IF \E i \in 1..Len(chars) : charAt(chars, i) = c
    THEN CHOOSE i \in 1..Len(chars) : charAt(chars, i) = c
    ELSE 0

\* String.prototype.charCodeAt, for the ASCII characters the payloads and
\* notification texts are made of.
charCodeAt(c) ==
    IF posIn(DigitChars, c) # 0 THEN 47 + posIn(DigitChars, c)
    ELSE IF posIn(UpperChars, c) # 0 THEN 64 + posIn(UpperChars, c)
    ELSE IF posIn(LowerChars, c) # 0 THEN 96 + posIn(LowerChars, c)
    ELSE IF c = " " THEN 32
    ELSE IF c = "-" THEN 45
    ELSE IF c = "." THEN 46
    ELSE IF c = "_" THEN 95
    ELSE 63

\* s.substring(from0, to0) with 0-based, end-exclusive indices.
substring(s, from0, to0) ==
    LET a == IF from0 < 0 THEN 0 ELSE IF from0 > Len(s) THEN Len(s) ELSE from0
        b == IF to0 < 0 THEN 0 ELSE IF to0 > Len(s) THEN Len(s) ELSE to0
        lo == IF a < b THEN a ELSE b
        hi == IF a < b THEN b ELSE a
    IN SubSeq(s, lo + 1, hi)

\* s.indexOf(pat, from) as a 1-based position, 0 when absent.
indexOfFrom(s, pat, from1) ==
    LET hits == {i \in from1..(Len(s) - Len(pat) + 1) : SubSeq(s, i, i + Len(pat) - 1) = pat}
    IN IF hits = {} THEN 0 ELSE CHOOSE i \in hits : \A j \in hits : i <= j

indexOf(s, pat) == indexOfFrom(s, pat, 1)

includes(s, pat) == indexOf(s, pat) # 0

startsWith(s, pat) == Len(s) >= Len(pat) /\ SubSeq(s, 1, Len(pat)) = pat

RECURSIVE replaceAll(_, _, _)
\* A replacement of every occurrence of the pattern.
replaceAll(s, pat, by) ==
    LET i == indexOf(s, pat)
    IN IF i = 0 THEN s
       ELSE SubSeq(s, 1, i - 1) \o by \o replaceAll(SubSeq(s, i + Len(pat), Len(s)), pat, by)

\* s.replace(pat, by) with a string pattern: the first occurrence only.
replaceFirst(s, pat, by) ==
    LET i == indexOf(s, pat)
    IN IF i = 0 THEN s
       ELSE SubSeq(s, 1, i - 1) \o by \o SubSeq(s, i + Len(pat), Len(s))

\* A split at the first separator only.
splitAtFirst(s, sep) ==
    LET i == indexOf(s, sep)
    IN IF i = 0 THEN <<s>>
       ELSE <<SubSeq(s, 1, i - 1), SubSeq(s, i + Len(sep), Len(s))>>

\* s.split(sep) for a non-empty separator: the sequence of parts.
RECURSIVE split(_, _)
split(s, sep) ==
    LET i == indexOf(s, sep)
    IN IF i = 0 THEN <<s>>
       ELSE <<SubSeq(s, 1, i - 1)>> \o split(SubSeq(s, i + Len(sep), Len(s)), sep)

isDigit(c) == c \in {"0", "1", "2", "3", "4", "5", "6", "7", "8", "9"}

digitValue(c) == charCodeAt(c) - 48

\* A test of the first character only.
startsNumeric(s) == Len(s) >= 1 /\ isDigit(charAt(s, 1))

\* /^\d+$/.test(s)
isNumeric(s) == Len(s) >= 1 /\ \A i \in 1..Len(s) : isDigit(charAt(s, i))

RECURSIVE toStringRadix(_, _)
\* Number.prototype.toString(radix) of a non-negative integer, upper-cased.
toStringRadix(n, radix) ==
    LET d == charAt("0123456789ABCDEF", (n % radix) + 1)
    IN IF n < radix THEN d ELSE toStringRadix(n \div radix, radix) \o d

\* Number.prototype.toString() of a non-negative integer.
toString(n) == toStringRadix(n, 10)

(***************************************************************************)
(* 32-bit integer operators of the JavaScript runtime.  A 32-bit pattern   *)
(* is kept as its two 16-bit halves [hi, lo].                              *)
(***************************************************************************)
Pow2_16 == 2 ^ 16

RECURSIVE BitXor(_, _)
BitXor(a, b) ==
    IF a = 0 THEN b
    ELSE IF b = 0 THEN a
    ELSE (((a % 2) + (b % 2)) % 2) + (2 * BitXor(a \div 2, b \div 2))

RECURSIVE BitAnd(_, _)
BitAnd(a, b) ==
    IF a = 0 \/ b = 0 THEN 0
    ELSE ((a % 2) * (b % 2)) + (2 * BitAnd(a \div 2, b \div 2))

\* The 32-bit pattern of a number below 2^31.
Word(n) == [hi |-> n \div Pow2_16, lo |-> n % Pow2_16]

\* w << 1: the top bit is shifted out, bit 15 carries into the high half.
Shl1(w) == [hi |-> ((w.hi * 2) + (w.lo \div 32768)) % Pow2_16,
            lo |-> (w.lo * 2) % Pow2_16]

\* w ^ v
WordXor(w, v) == [hi |-> BitXor(w.hi, v.hi), lo |-> BitXor(w.lo, v.lo)]

\* w & v
WordAnd(w, v) == [hi |-> BitAnd(w.hi, v.hi), lo |-> BitAnd(w.lo, v.lo)]

(***************************************************************************)
(* CRC16 Engine: calculateCRC16.                                           *)
(***************************************************************************)
RECURSIVE crcShift(_, _)
\* The inner loop: i further shift steps on the register.  (Each step's
\* register is computed before the next step is taken.)
crcShift(crc, i) ==
    IF i = 0 THEN crc
    ELSE LET next == IF WordAnd(crc, Word(32768)) # Word(0)
                     THEN WordXor(Shl1(crc), Word(4129))
                     ELSE Shl1(crc)
         IN IF next.lo >= 0 THEN crcShift(next, i - 1) ELSE next

RECURSIVE crcRegisterLowByte(_, _, _)
\* A register that takes each byte into its low byte.
crcRegisterLowByte(str, c, crc) ==
    IF c > Len(str) THEN crc
    ELSE LET next == crcShift(WordXor(crc, Word(charCodeAt(charAt(str, c)))), 8)
         IN IF next.lo >= 0 THEN crcRegisterLowByte(str, c + 1, next) ELSE next

RECURSIVE crcRegister(_, _, _)
\* The outer loop from character c (1-based) on; the register is never
\* masked to 16 bits between steps.
crcRegister(str, c, crc) ==
    IF c > Len(str) THEN crc
    ELSE LET next == crcShift(WordXor(crc, Word(charCodeAt(charAt(str, c)) * 256)), 8)
         IN IF next.lo >= 0 THEN crcRegister(str, c + 1, next) ELSE next

calculateCRC16(str) ==
    LET hex == toStringRadix(WordAnd(crcRegister(str, 1, Word(65535)), Word(65535)).lo, 16)
    IN IF Len(hex) = 3 THEN "0" \o hex ELSE hex

(***************************************************************************)
(* TLV Codec.                                                              *)
(***************************************************************************)
\* The absent value (null / undefined) of an optional input or result.
Null == "<null>"

formatLength(str) ==
    LET length == toString(Len(str))
    IN IF Len(length) = 1 THEN "0" \o length ELSE length

\* A thrown Error, as the handler's caller sees it.
Thrown(msg) == [ok |-> FALSE, value |-> Null, error |-> msg]

Returned(v) == [ok |-> TRUE, value |-> v, error |-> Null]

\* No outcome yet: the call has not been made.
NotCalled == [ok |-> FALSE, value |-> Null, error |-> Null]

\* An absent (null) service-fee descriptor.
NoFee == [type |-> Null, value |-> Null]

\* A fee field whose fixed type goes by the name 'fixed'.
feeFieldFixed(serviceFee) ==
    IF serviceFee = NoFee THEN ""
    ELSE IF serviceFee.type = "fixed"
         THEN "55020256" \o formatLength(serviceFee.value) \o serviceFee.value
    ELSE IF serviceFee.type = "percent"
         THEN "55020357" \o formatLength(serviceFee.value) \o serviceFee.value
    ELSE ""

\* The service-fee suffix appended to the amount field.
feeField(serviceFee) ==
    IF serviceFee = NoFee THEN ""
    ELSE IF serviceFee.type = "rupiah"
         THEN "55020256" \o formatLength(serviceFee.value) \o serviceFee.value
    ELSE IF serviceFee.type = "percent"
         THEN "55020357" \o formatLength(serviceFee.value) \o serviceFee.value
    ELSE ""

\* A converter that appends a second CRC tag and length before the checksum.
convertTagged(staticQRIS, amount, serviceFee) ==
    IF staticQRIS = "" \/ amount = "" \/ ~isNumeric(amount)
    THEN Thrown("QRIS conversion failed")
    ELSE
      LET parts == split(replaceFirst(substring(staticQRIS, 0, Len(staticQRIS) - 4),
                                      "010211", "010212"), "5802ID")
      IN IF Len(parts) # 2
         THEN Thrown("QRIS conversion failed")
         ELSE LET body == parts[1] \o "54" \o formatLength(amount) \o amount
                             \o feeField(serviceFee) \o "5802ID" \o parts[2] \o "6304"
              IN Returned(body \o calculateCRC16(body))

convertStaticToDynamic(staticQRIS, amount, serviceFee) ==
    IF staticQRIS = Null \/ staticQRIS = "" \/ amount = Null \/ amount = ""
    THEN Thrown("QRIS conversion failed: Static QRIS and amount are required")
    ELSE IF ~isNumeric(amount)
    THEN Thrown("QRIS conversion failed: Amount must be numeric string without formatting")
    ELSE
      LET qrisWithoutCRC == substring(staticQRIS, 0, Len(staticQRIS) - 4)
          step1 == replaceFirst(qrisWithoutCRC, "010211", "010212")
          parts == split(step1, "5802ID")
      IN IF Len(parts) # 2
         THEN Thrown("QRIS conversion failed: Invalid QRIS format: missing merchant location")
         ELSE
           LET amountField == "54" \o formatLength(amount) \o amount
                                \o feeField(serviceFee) \o "5802ID"
               qrisWithAmount == parts[1] \o amountField \o parts[2]
               crc == calculateCRC16(qrisWithAmount)
           IN Returned(qrisWithAmount \o crc)

\* The message of the exception convertStaticToDynamic throws for these
\* arguments, Null when it returns: its checks, without the payload it builds.
conversionError(staticQRIS, amount) ==
    IF staticQRIS = Null \/ staticQRIS = "" \/ amount = Null \/ amount = ""
    THEN "QRIS conversion failed: Static QRIS and amount are required"
    ELSE IF ~isNumeric(amount)
    THEN "QRIS conversion failed: Amount must be numeric string without formatting"
    ELSE IF Len(split(replaceFirst(substring(staticQRIS, 0, Len(staticQRIS) - 4),
                                   "010211", "010212"), "5802ID")) # 2
    THEN "QRIS conversion failed: Invalid QRIS format: missing merchant location"
    ELSE Null

\* The outcome of validateQRIS: not called yet, or the boolean it returned.
NotValidated == [called |-> FALSE, result |-> FALSE]

Validated(b) == [called |-> TRUE, result |-> b]

\* The bounds of the length check of validateQRIS.
MinLength == 50
MaxLength == 500

validateQRIS(qris) ==
    IF qris = Null \/ qris = "" \/ Len(qris) < MinLength \/ Len(qris) > MaxLength
    THEN FALSE
    ELSE IF ~startsWith(qris, "00020")
    THEN FALSE
    ELSE IF ~includes(qris, "5802ID")
    THEN FALSE
    ELSE TRUE

\* The length of the run of digits of s that starts at position i (1-based).
RECURSIVE digitRun(_, _)
digitRun(s, i) ==
    IF i > Len(s) \/ ~isDigit(charAt(s, i)) THEN 0 ELSE 1 + digitRun(s, i + 1)

\* qris.match(/54(\d{2})(\d+)/): the 1-based position of the leftmost match,
\* 0 when there is none.
amountMatch(qris) ==
    LET hits == {i \in 1..(Len(qris) - 1) :
                    /\ SubSeq(qris, i, i + 1) = "54"
                    /\ digitRun(qris, i + 2) >= 3}
    IN IF hits = {} THEN 0 ELSE CHOOSE i \in hits : \A j \in hits : i <= j

extractAmount(qris) ==
    LET at == amountMatch(qris)
    IN IF at = 0 THEN Null
       ELSE LET length == (digitValue(charAt(qris, at + 2)) * 10)
                             + digitValue(charAt(qris, at + 3))
                restOfString == SubSeq(qris, at + 4, at + 3 + digitRun(qris, at + 4))
            IN IF Len(restOfString) >= length
               THEN substring(restOfString, 0, length)
               ELSE Null

(***************************************************************************)
(* Amount strings: parseInt, toString, padStart and the store's CAST.      *)
(***************************************************************************)
\* The number NaN.
NaN == 0 - 1

RECURSIVE digitsValue(_, _, _)
\* The value of the longest digit prefix of s from position i, acc so far.
digitsValue(s, i, acc) ==
    IF i > Len(s) \/ ~isDigit(charAt(s, i)) THEN acc
    ELSE digitsValue(s, i + 1, (acc * 10) + digitValue(charAt(s, i)))

\* parseInt(s, 10) of a string without sign or leading blanks.
parseInt(s) ==
    IF Len(s) = 0 \/ ~isDigit(charAt(s, 1)) THEN NaN ELSE digitsValue(s, 1, 0)

\* Number.prototype.toString() of an integer or NaN.
numberToString(n) == IF n = NaN THEN "NaN" ELSE toString(n)

\* a + b on numbers.
numberAdd(a, b) == IF a = NaN \/ b = NaN THEN NaN ELSE a + b

RECURSIVE padStart(_, _, _)
\* String.prototype.padStart(width, fill) with a one-character fill.
padStart(s, width, fill) ==
    IF Len(s) >= width THEN s ELSE padStart(fill \o s, width, fill)

\* CAST(text AS INTEGER): the longest integer prefix, 0 when there is none.
castInteger(s) ==
    IF Len(s) = 0 \/ ~isDigit(charAt(s, 1)) THEN 0 ELSE digitsValue(s, 1, 0)

\* CAST(column AS INTEGER) = ? with a text parameter: the parameter takes
\* numeric affinity when it is a well-formed number, else it stays text and
\* no integer equals it.
castEquals(column, param) == isNumeric(param) /\ castInteger(column) = parseInt(param)

(***************************************************************************)
(* Timestamps.  The clock counts minutes; a timestamp string is a date     *)
(* field, a separator and a time-of-day field, as in the two renderings    *)
(* the code and the store use.                                             *)
(***************************************************************************)
DayMinutes == 24 * 60

dateField(t) == padStart(toString(t \div DayMinutes), 2, "0")

timeField(t) == padStart(toString(t % DayMinutes), 4, "0")

\* new Date(t).toISOString(): YYYY-MM-DD "T" HH:MM:SS.sssZ
toISOString(t) == dateField(t) \o "T" \o timeField(t)

\* The store's datetime(...) and CURRENT_TIMESTAMP: YYYY-MM-DD " " HH:MM:SS
datetime(t) == dateField(t) \o " " \o timeField(t)

RECURSIVE textLess(_, _)
\* a < b on TEXT values in the store (memcmp, shorter prefix first); the
\* same order as JavaScript's string comparison on ASCII.
textLess(a, b) ==
    IF Len(b) = 0 THEN FALSE
    ELSE IF Len(a) = 0 THEN TRUE
    ELSE IF charCodeAt(charAt(a, 1)) # charCodeAt(charAt(b, 1))
         THEN charCodeAt(charAt(a, 1)) < charCodeAt(charAt(b, 1))
         ELSE textLess(SubSeq(a, 2, Len(a)), SubSeq(b, 2, Len(b)))

textGreater(a, b) == textLess(b, a)

RECURSIVE toLowerCase(_)
toLowerCase(s) ==
    IF Len(s) = 0 THEN ""
    ELSE LET c == charAt(s, 1)
             i == posIn(UpperChars, c)
         IN (IF i # 0 THEN charAt(LowerChars, i) ELSE c)
              \o toLowerCase(SubSeq(s, 2, Len(s)))

(***************************************************************************)
(* parseQRIS: String.prototype.slice, parseInt with a sign, the result.    *)
(***************************************************************************)
\* s.slice(start, end): a negative index counts from the end of the string.
slice(s, start0, end0) ==
    LET len == Len(s)
        from == IF start0 < 0 THEN (IF len + start0 < 0 THEN 0 ELSE len + start0)
                ELSE IF start0 > len THEN len ELSE start0
        to == IF end0 < 0 THEN (IF len + end0 < 0 THEN 0 ELSE len + end0)
              ELSE IF end0 > len THEN len ELSE end0
    IN IF from >= to THEN "" ELSE SubSeq(s, from + 1, to)

RECURSIVE trimStart(_)
\* s without its leading blanks, which parseInt skips.
trimStart(s) ==
    IF Len(s) > 0 /\ charAt(s, 1) = " " THEN trimStart(SubSeq(s, 2, Len(s))) ELSE s

NotANumber == [isNaN |-> TRUE, value |-> 0]

\* parseInt(s, 10): leading blanks, an optional sign, the longest digit prefix.
parseIntSigned(s) ==
    LET body == trimStart(s)
        signed == Len(body) > 0 /\ charAt(body, 1) \in {"-", "+"}
        digits == IF signed THEN SubSeq(body, 2, Len(body)) ELSE body
        magnitude == digitsValue(digits, 1, 0)
    IN IF Len(digits) = 0 \/ ~isDigit(charAt(digits, 1)) THEN NotANumber
       ELSE [isNaN |-> FALSE,
             value |-> IF charAt(body, 1) = "-" THEN 0 - magnitude ELSE magnitude]

\* The result object before the loop has stored a field.
NoResult ==
    [ valid |-> FALSE, type |-> Null, payloadFormat |-> Null, amount |-> Null,
      categoryCode |-> Null, currency |-> Null, countryCode |-> Null,
      name |-> Null, city |-> Null, postalCode |-> Null ]

\* parseQRIS has not been called.
NotParsed == [pc |-> "idle", pos |-> 0, iterations |-> 0, result |-> NoResult, error |-> Null]

\* switch (tag): the result with the value stored under the field of the tag.
stored(result, tag, value) ==
    IF tag = "52" THEN [result EXCEPT !.categoryCode = value]
    ELSE IF tag = "53" THEN [result EXCEPT !.currency = value]
    ELSE IF tag = "58" THEN [result EXCEPT !.countryCode = value]
    ELSE IF tag = "59" THEN [result EXCEPT !.name = value]
    ELSE IF tag = "60" THEN [result EXCEPT !.city = value]
    ELSE IF tag = "61" THEN [result EXCEPT !.postalCode = value]
    ELSE result

\* requiredApiKey when env.API_KEY is not set: authentication is off.
DefaultKey == "your-secret-api-key"

(***************************************************************************)
(* State.                                                                  *)
(***************************************************************************)
VARIABLES
    staticQRIS,            \* codec call: the payload argument (staticQRIS, qris or str)
    amount,                \* codec call: the amount argument
    serviceFee,            \* codec call: the service-fee argument
    converted,             \* codec call: NotCalled before the call, then its outcome
    checksum,              \* calculateCRC16 of the payload argument, once called
    valid,                 \* validateQRIS of the payload argument, once called
    extracted,             \* extractAmount of a payload, once called
    parsed,                \* parseQRIS of the payload argument: position, iterations, result
    impl,                  \* the deployed build: "worker" (src/src/worker.js) or "node" (qris-integration.js)
    now,                   \* the clock, in minutes
    API_KEY,               \* env.API_KEY, the configured key
    exchanges,             \* the requests the router has decided, each with its outcome
    unique_amounts,        \* table unique_amounts
    payment_expectations,  \* table payment_expectations
    nextId,                \* AUTOINCREMENT sequence of payment_expectations
    notifications,         \* table notifications
    callbacks,             \* the callbacks emitted so far, in order
    responses,             \* the HTTP responses sent so far
    procs,                 \* the requests in flight: handler, position and locals
    budget                 \* the requests the clients have yet to send

codecVars == <<staticQRIS, amount, serviceFee, converted, checksum, valid, extracted, parsed>>

storeVars == <<unique_amounts, payment_expectations, nextId, notifications>>

\* What no handler step writes.
envVars == <<codecVars, impl, now, API_KEY, exchanges>>

vars == <<envVars, storeVars, callbacks, responses, procs, budget>>

(***************************************************************************)
(* The codec as called by a client: arguments drawn from bounded sets.     *)
(***************************************************************************)
StaticPayloads ==
    { "0002010102115802ID5903ABC6304D23D",
      "0002010102115903ABC6304D23D",
      "0002010102115802ID5802ID5903ABC6304D23D",
      "0002015802ID5903ABC6304D23D",
      "0002010102110102115802ID6304D23D",
      "0002010102115802ID59045802630412AB",
      "00020101021126200016ID.CO.QRIS.WWW0303UMI5204581253033605802ID5903ABC6304D99F",
      "00020101021126200016ID.CO.QRIS.WWW0303UMI5204541153033605802ID5903ABC6304E9EB",
      "",
      Null }

Amounts == {Null, "", "0", "5", "21", "007", "50000", "1x", "5.5"}

ServiceFees ==
    { NoFee,
      [type |-> "rupiah", value |-> "500"],
      [type |-> "percent", value |-> "2"],
      [type |-> "fixed", value |-> "500"] }

CodecInit ==
    /\ staticQRIS \in StaticPayloads
    /\ amount \in Amounts
    /\ serviceFee \in ServiceFees
    /\ converted = NotCalled
    /\ checksum = NotCalled
    /\ valid = NotValidated
    /\ extracted = NotCalled
    /\ parsed = NotParsed
    /\ impl = "worker"
    /\ now = 0
    /\ API_KEY = DefaultKey
    /\ exchanges = {}
    /\ unique_amounts = {}
    /\ payment_expectations = {}
    /\ nextId = 1
    /\ notifications = {}
    /\ callbacks = <<>>
    /\ responses = {}
    /\ procs = <<>>
    /\ budget = [register |-> 0, notify |-> 0]

Convert ==
    /\ converted = NotCalled
    /\ converted' = convertStaticToDynamic(staticQRIS, amount, serviceFee)
    /\ UNCHANGED <<staticQRIS, amount, serviceFee, checksum, valid, extracted>>
    /\ UNCHANGED <<parsed, impl, now, API_KEY, exchanges>>
    /\ UNCHANGED <<storeVars, callbacks, responses, procs, budget>>

\* extractAmount applied to the payload the converter returned.
Extract ==
    /\ converted.ok
    /\ extracted = NotCalled
    /\ extracted' = Returned(extractAmount(converted.value))
    /\ UNCHANGED <<staticQRIS, amount, serviceFee, converted, checksum, valid>>
    /\ UNCHANGED <<parsed, impl, now, API_KEY, exchanges>>
    /\ UNCHANGED <<storeVars, callbacks, responses, procs, budget>>

CodecNext == Convert \/ Extract

SpecCodec == CodecInit /\ [][CodecNext]_vars

(***************************************************************************)
(* calculateCRC16 as called on its own: every string over a small alphabet *)
(* up to a length, and the two usual test vectors.                         *)
(***************************************************************************)
MaxCrcLen == 3

CrcAlphabet == {"0", "1", "2", "E"}

RECURSIVE StringsOver(_, _)
StringsOver(alphabet, n) ==
    IF n = 0 THEN {""}
    ELSE LET shorter == StringsOver(alphabet, n - 1)
         IN shorter \cup {str \o c : str \in shorter, c \in alphabet}

CrcInputs == StringsOver(CrcAlphabet, MaxCrcLen) \cup {"ABC", "123456789"}

CrcInit ==
    /\ staticQRIS \in CrcInputs
    /\ amount = ""
    /\ serviceFee = NoFee
    /\ converted = NotCalled
    /\ checksum = NotCalled
    /\ valid = NotValidated
    /\ extracted = NotCalled
    /\ parsed = NotParsed
    /\ impl = "worker"
    /\ now = 0
    /\ API_KEY = DefaultKey
    /\ exchanges = {}
    /\ unique_amounts = {}
    /\ payment_expectations = {}
    /\ nextId = 1
    /\ notifications = {}
    /\ callbacks = <<>>
    /\ responses = {}
    /\ procs = <<>>
    /\ budget = [register |-> 0, notify |-> 0]

Checksum ==
    /\ checksum = NotCalled
    /\ checksum' = Returned(calculateCRC16(staticQRIS))
    /\ UNCHANGED <<staticQRIS, amount, serviceFee, converted, valid, extracted>>
    /\ UNCHANGED <<parsed, impl, now, API_KEY, exchanges>>
    /\ UNCHANGED <<storeVars, callbacks, responses, procs, budget>>

CrcNext == Checksum

SpecCrc == CrcInit /\ [][CrcNext]_vars

(***************************************************************************)
(* validateQRIS as called on its own: payloads of the lengths around the   *)
(* two limits, with and without the format indicator and the sentinel.     *)
(***************************************************************************)
RECURSIVE sevens(_)
\* A string of n characters '7'.
sevens(n) ==
    IF n <= 0 THEN ""
    ELSE LET half == sevens(n \div 2)
         IN IF n % 2 = 0 THEN half \o half ELSE half \o half \o "7"

\* The string s followed by as many '7' as bring it to length n.
filledTo(s, n) == s \o sevens(n - Len(s))

ValidateHeads == {"000201", "000202", "00021", "0002"}

ValidateBodies == {"", "5802ID", "5802ID5802ID", "5802id"}

ValidateLengths == {MinLength - 1, MinLength, MaxLength, MaxLength + 1}

ValidatePayloads ==
    {filledTo(head \o body, n) : head \in ValidateHeads, body \in ValidateBodies,
                                  n \in ValidateLengths}
        \cup {"", Null}

\* Payloads whose fields are all well formed: two static ones, of merchant
\* category 5812 and 5411, and three with an amount field.
AmountPayloads ==
    { "00020101021126250016ID.CO.QRIS.WWW0303UMI5204581253033605802ID5903ABC6007JAKARTA6304AE9F",
      "00020101021126250016ID.CO.QRIS.WWW0303UMI5204541153033605802ID5903ABC6007JAKARTA6304236C",
      "00020101021226250016ID.CO.QRIS.WWW0303UMI5204581253033605405500005802ID5903ABC6007JAKARTA6304D0CB",
      "00020101021226250016ID.CO.QRIS.WWW0303UMI5204541153033605405500005802ID5903ABC6007JAKARTA6304B4B2",
      "00020101021226250016ID.CO.QRIS.WWW0303UMI520458125303360540115802ID5903ABC6007JAKARTA630450A6" }

ValidateInit ==
    /\ staticQRIS \in ValidatePayloads \cup AmountPayloads
    /\ amount = ""
    /\ serviceFee = NoFee
    /\ converted = NotCalled
    /\ checksum = NotCalled
    /\ valid = NotValidated
    /\ extracted = NotCalled
    /\ parsed = NotParsed
    /\ impl = "worker"
    /\ now = 0
    /\ API_KEY = DefaultKey
    /\ exchanges = {}
    /\ unique_amounts = {}
    /\ payment_expectations = {}
    /\ nextId = 1
    /\ notifications = {}
    /\ callbacks = <<>>
    /\ responses = {}
    /\ procs = <<>>
    /\ budget = [register |-> 0, notify |-> 0]

Validate ==
    /\ valid = NotValidated
    /\ valid' = Validated(validateQRIS(staticQRIS))
    /\ UNCHANGED <<staticQRIS, amount, serviceFee, converted, checksum, extracted>>
    /\ UNCHANGED <<parsed, impl, now, API_KEY, exchanges>>
    /\ UNCHANGED <<storeVars, callbacks, responses, procs, budget>>

\* extractAmount applied to the payload argument, as handleQRISValidate does.
ExtractPayload ==
    /\ staticQRIS # Null
    /\ extracted = NotCalled
    /\ extracted' = Returned(extractAmount(staticQRIS))
    /\ UNCHANGED <<staticQRIS, amount, serviceFee, converted, checksum, valid>>
    /\ UNCHANGED <<parsed, impl, now, API_KEY, exchanges>>
    /\ UNCHANGED <<storeVars, callbacks, responses, procs, budget>>

ValidateNext == Validate \/ ExtractPayload

SpecValidate == ValidateInit /\ [][ValidateNext]_vars

(***************************************************************************)
(* parseQRIS as called on its own: payloads validateQRIS accepts, whose    *)
(* merchant name and city fields carry well-formed and malformed lengths.  *)
(***************************************************************************)
\* Iterations of the loop of parseQRIS that one behaviour follows.
MaxIterations == 12

ParseHead == "00020101021126250016ID.CO.QRIS.WWW0303UMI"

NameFields ==
    {"5903ABC", "5900", "59-4ABC", "59-9ABC", "59xxABC", "5999ABC", "59 3ABC", "59+3ABC"}

CityFields == {"6007JAKARTA", "60-0JAKARTA"}

ParsePayloads ==
    {ParseHead \o "52045411" \o "5303360" \o "5802ID" \o nameField \o cityField
         \o "610512345" \o "6304ABCD" : nameField \in NameFields, cityField \in CityFields}
        \cup {"0002015802ID5903ABC6304D23D", "", Null}

ParseInit ==
    /\ staticQRIS \in ParsePayloads
    /\ amount = ""
    /\ serviceFee = NoFee
    /\ converted = NotCalled
    /\ checksum = NotCalled
    /\ valid = NotValidated
    /\ extracted = NotCalled
    /\ parsed = NotParsed
    /\ impl = "worker"
    /\ now = 0
    /\ API_KEY = DefaultKey
    /\ exchanges = {}
    /\ unique_amounts = {}
    /\ payment_expectations = {}
    /\ nextId = 1
    /\ notifications = {}
    /\ callbacks = <<>>
    /\ responses = {}
    /\ procs = <<>>
    /\ budget = [register |-> 0, notify |-> 0]

\* parseQRIS up to its loop: the validation, the result object, pos = 6.
ParseStart ==
    /\ parsed.pc = "idle"
    /\ parsed' =
          IF ~validateQRIS(staticQRIS)
          THEN [NotParsed EXCEPT !.pc = "thrown", !.error = "Invalid QRIS format"]
          ELSE [NotParsed EXCEPT
                  !.pc = "loop",
                  !.pos = 6,
                  !.result = [NoResult EXCEPT
                      !.valid = TRUE,
                      !.type = IF startsWith(staticQRIS, "000201") THEN "static" ELSE "dynamic",
                      !.payloadFormat = slice(staticQRIS, 4, 6),
                      !.amount = extractAmount(staticQRIS)]]
    /\ UNCHANGED <<staticQRIS, amount, serviceFee, converted, checksum, valid, extracted>>
    /\ UNCHANGED <<impl, now, API_KEY, exchanges>>
    /\ UNCHANGED <<storeVars, callbacks, responses, procs, budget>>

\* The length the loop reads at pos.
lengthAt(qris, pos) == parseIntSigned(slice(qris, pos + 2, pos + 4))

\* The loop is over at pos: the while condition is false or the body breaks.
loopEnds(qris, pos) ==
    \/ ~(pos < Len(qris) - 4)
    \/ lengthAt(qris, pos).isNaN
    \/ pos + 4 + lengthAt(qris, pos).value > Len(qris)

\* One iteration of the loop that does not break.
ParseField ==
    LET pos == parsed.pos
        tag == slice(staticQRIS, pos, pos + 2)
        length == lengthAt(staticQRIS, pos).value
        value == slice(staticQRIS, pos + 4, pos + 4 + length)
    IN /\ parsed.pc = "loop"
       /\ ~loopEnds(staticQRIS, pos)
       /\ parsed.iterations < MaxIterations
       /\ parsed' = [parsed EXCEPT !.pos = pos + 4 + length,
                                   !.iterations = parsed.iterations + 1,
                                   !.result = stored(parsed.result, tag, value)]
       /\ UNCHANGED <<staticQRIS, amount, serviceFee, converted, checksum, valid, extracted>>
       /\ UNCHANGED <<impl, now, API_KEY, exchanges>>
       /\ UNCHANGED <<storeVars, callbacks, responses, procs, budget>>

\* The loop is left and the result returned.
ParseReturn ==
    /\ parsed.pc = "loop"
    /\ loopEnds(staticQRIS, parsed.pos)
    /\ parsed' = [parsed EXCEPT !.pc = "returned"]
    /\ UNCHANGED <<staticQRIS, amount, serviceFee, converted, checksum, valid, extracted>>
    /\ UNCHANGED <<impl, now, API_KEY, exchanges>>
    /\ UNCHANGED <<storeVars, callbacks, responses, procs, budget>>

ParseNext == ParseStart \/ ParseField \/ ParseReturn

SpecParse == ParseInit /\ [][ParseNext]_vars

(***************************************************************************)
(* The reconciliation engine over the store.                               *)
(***************************************************************************)
\* Size of the disambiguation pool 001..PoolSize (200 in the code, scaled).
PoolSize == 1

\* Draw attempts of one reservation (200 in the code, scaled).
MaxAttempts == 1

\* Requests of each kind the clients send in one behaviour.
MaxRegistrations == 2
MaxNotifications == 1

\* Lifetime of a reservation, in minutes: 60 * 60 * 1000 ms.
ReservationMinutes == 60

\* The request slots of the runtime: handlers that run concurrently.
Procs == {1, 2}

\* The first UTC midnight after the service starts.
Midnight == DayMinutes

NoResponse == [status |-> 0, error |-> Null, unique_amount |-> Null, expected_amount |-> Null]

NoRows == <<>>

IdleProc ==
    [ pc |-> "idle", handler |-> Null,
      orderRef |-> Null, expectedAmount |-> Null, useUniqueAmount |-> FALSE,
      callbackUrl |-> Null, staticQRIS |-> Null, timeoutDate |-> Null,
      attempts |-> 0, uniqueAmount |-> Null,
      text |-> Null, amountDetected |-> Null, startId |-> 0,
      expectations |-> NoRows, matched |-> NoRows, matchType |-> "none",
      tasks |-> {} ]

\* The handler of slot p answers: the response is sent, its locals are gone.
Answer(p, resp) ==
    /\ procs' = [procs EXCEPT ![p] = IdleProc]
    /\ responses' = responses \cup
          {[ handler |-> procs[p].handler, orderRef |-> procs[p].orderRef,
             status |-> resp.status, error |-> resp.error ]}

Free(p) == procs[p].pc = "idle"

\* A new request takes the first free slot.
Accepts(p) == Free(p) /\ \A q \in Procs : Free(q) => p <= q

(***************************************************************************)
(* Unique-Amount Allocator: generateUniqueAmount.                          *)
(***************************************************************************)
\* expires_at > datetime('now')
Active(row) == textGreater(row.expires_at, datetime(now))

\* expires_at < datetime('now')
Expired(row) == textLess(row.expires_at, datetime(now))

\* The rows a SELECT ... ORDER BY created_at DESC LIMIT 1 may return.
LatestCreated(rows) == {r \in rows : \A q \in rows : ~textLess(r.created_at, q.created_at)}

\* Where generateUniqueAmount returns to in its caller.
AfterGenerate(pr) == "store"

\* An allocator that never looks for the order's own reservation.
GenSkipExisting(p) ==
    /\ procs[p].pc = "gen_select"
    /\ procs' = [procs EXCEPT ![p].pc = "gen_cleanup"]
    /\ UNCHANGED <<envVars, storeVars, callbacks, responses, budget>>

\* A lookup that gives the reservation it returns a new hour.
GenSelectExtend(p) ==
    LET pr == procs[p]
        existing == {r \in unique_amounts : r.order_reference = pr.orderRef /\ Active(r)}
    IN /\ pr.pc = "gen_select"
       /\ IF existing # {}
          THEN \E r \in LatestCreated(existing) :
                 /\ procs' = [procs EXCEPT ![p].pc = AfterGenerate(pr),
                                           ![p].uniqueAmount = r.unique_amount]
                 /\ unique_amounts' = (unique_amounts \ {r}) \cup
                       {[r EXCEPT !.expires_at = toISOString(now + ReservationMinutes + 1)]}
          ELSE /\ procs' = [procs EXCEPT ![p].pc = "gen_cleanup"]
               /\ UNCHANGED unique_amounts
       /\ UNCHANGED <<envVars, payment_expectations, nextId, notifications,
                      callbacks, responses, budget>>

\* SELECT unique_amount ... WHERE order_reference = ? AND expires_at > now
GenSelectExisting(p) ==
    LET pr == procs[p]
        existing == {r \in unique_amounts : r.order_reference = pr.orderRef /\ Active(r)}
    IN /\ pr.pc = "gen_select"
       /\ IF existing # {}
          THEN \E r \in LatestCreated(existing) :
                 procs' = [procs EXCEPT ![p].pc = AfterGenerate(pr),
                                        ![p].uniqueAmount = r.unique_amount]
          ELSE procs' = [procs EXCEPT ![p].pc = "gen_cleanup"]
       /\ UNCHANGED <<envVars, storeVars, callbacks, responses, budget>>

\* A purge that also deletes the expectations of the orders whose
\* reservations it deletes.
GenCleanupCascade(p) ==
    /\ procs[p].pc = "gen_cleanup"
    /\ unique_amounts' = {r \in unique_amounts : ~Expired(r)}
    /\ payment_expectations' =
          {e \in payment_expectations :
              \A r \in unique_amounts : Expired(r) => r.order_reference # e.order_reference}
    /\ procs' = [procs EXCEPT ![p].pc = "gen_draw", ![p].attempts = 0]
    /\ UNCHANGED <<envVars, nextId, notifications, callbacks, responses, budget>>

\* DELETE FROM unique_amounts WHERE expires_at < datetime('now')
GenCleanup(p) ==
    /\ procs[p].pc = "gen_cleanup"
    /\ unique_amounts' = {r \in unique_amounts : ~Expired(r)}
    /\ procs' = [procs EXCEPT ![p].pc = "gen_draw", ![p].attempts = 0]
    /\ UNCHANGED <<envVars, payment_expectations, nextId, notifications,
                   callbacks, responses, budget>>

\* The attempts after which the loop gives up: while (attempts < maxAttempts)
\* in the worker, if (attempt > 200) in the Node build.
AttemptLimit == IF impl = "worker" THEN MaxAttempts ELSE MaxAttempts + 1

\* A draw that counts an attempt whatever the value drawn.
GenDrawCounting(p, size) ==
    /\ procs[p].pc = "gen_draw"
    /\ procs[p].attempts < AttemptLimit
    /\ procs' = [procs EXCEPT ![p].attempts = procs[p].attempts + 1]
    /\ UNCHANGED <<envVars, storeVars, callbacks, responses, budget>>

\* Math.floor(Math.random() * 200) + 1, padded to three digits, and the
\* availability SELECT on it.
GenDrawFrom(p, size) ==
    LET pr == procs[p]
    IN /\ pr.pc = "gen_draw"
       /\ pr.attempts < AttemptLimit
       /\ \E randomNum \in 1..size :
            LET uniqueAmount == padStart(toString(randomNum), 3, "0")
                taken == \E r \in unique_amounts : r.unique_amount = uniqueAmount /\ Active(r)
            IN IF taken
               THEN procs' = [procs EXCEPT ![p].attempts = pr.attempts + 1]
               ELSE procs' = [procs EXCEPT ![p].pc = "gen_insert",
                                           ![p].uniqueAmount = uniqueAmount]
       /\ UNCHANGED <<envVars, storeVars, callbacks, responses, budget>>

GenDraw(p) == GenDrawFrom(p, PoolSize)

\* throw new Error('No unique amounts available'), answered 500 by the caller.
GenExhausted(p) ==
    LET pr == procs[p]
    IN /\ pr.pc = "gen_draw"
       /\ pr.attempts >= AttemptLimit
       /\ Answer(p, [NoResponse EXCEPT !.status = 500,
                  !.error = "Failed to generate unique amount: No unique amounts available"])
       /\ UNCHANGED <<envVars, storeVars, callbacks, budget>>

\* A table without the UNIQUE constraint.
NoUniqueIndex(uniqueAmount) == FALSE

\* The UNIQUE constraint on unique_amounts.unique_amount.
UniqueViolation(uniqueAmount) == \E r \in unique_amounts : r.unique_amount = uniqueAmount

\* INSERT INTO unique_amounts (unique_amount, order_reference, expires_at)
GenInsert(p) ==
    LET pr == procs[p]
        expiresAt == toISOString(now + ReservationMinutes)
    IN /\ pr.pc = "gen_insert"
       /\ IF UniqueViolation(pr.uniqueAmount)
          THEN /\ procs' = [procs EXCEPT ![p].pc = "gen_draw",
                                         ![p].attempts = pr.attempts + 1,
                                         ![p].uniqueAmount = Null]
               /\ UNCHANGED unique_amounts
          ELSE /\ unique_amounts' = unique_amounts \cup
                     {[unique_amount |-> pr.uniqueAmount, order_reference |-> pr.orderRef,
                       created_at |-> datetime(now), expires_at |-> expiresAt]}
               /\ procs' = [procs EXCEPT ![p].pc = AfterGenerate(pr)]
       /\ UNCHANGED <<envVars, payment_expectations, nextId, notifications,
                      callbacks, responses, budget>>

(***************************************************************************)
(* Registration: handleWooCommercePaymentWebhook.                          *)
(***************************************************************************)
StartPaymentWebhook(p, orderRef, expectedAmount, callbackUrl, useUniqueAmount) ==
    /\ Accepts(p)
    /\ budget.register > 0
    /\ budget' = [budget EXCEPT !.register = budget.register - 1]
    /\ procs' = [procs EXCEPT ![p] =
          [IdleProc EXCEPT !.pc = IF useUniqueAmount THEN "gen_select" ELSE "store",
                           !.handler = "payment-webhook",
                           !.orderRef = orderRef,
                           !.expectedAmount = expectedAmount,
                           !.callbackUrl = callbackUrl,
                           !.useUniqueAmount = useUniqueAmount,
                           !.uniqueAmount = expectedAmount]]
    /\ UNCHANGED <<envVars, storeVars, callbacks, responses>>

\* The two amounts joined as strings, not added as numbers.
concatenatedAmount(expectedAmount, uniqueAmount, useUniqueAmount) ==
    IF useUniqueAmount THEN expectedAmount \o uniqueAmount ELSE expectedAmount

\* useUniqueAmount ? (parseInt(expectedAmount) + parseInt(uniqueAmount)).toString()
\*                 : expectedAmount
combinedAmountOf(expectedAmount, uniqueAmount, useUniqueAmount) ==
    IF useUniqueAmount
    THEN numberToString(numberAdd(parseInt(expectedAmount), parseInt(uniqueAmount)))
    ELSE expectedAmount

\* INSERT OR REPLACE INTO payment_expectations (...) VALUES (..., 'pending')
StoreExpectation(p) ==
    LET pr == procs[p]
        combinedAmount == combinedAmountOf(pr.expectedAmount, pr.uniqueAmount, pr.useUniqueAmount)
        row == [ id |-> nextId, order_reference |-> pr.orderRef,
                 expected_amount |-> combinedAmount, unique_amount |-> pr.uniqueAmount,
                 original_amount |-> pr.expectedAmount, callback_url |-> pr.callbackUrl,
                 status |-> "pending", created_at |-> toISOString(now),
                 completed_at |-> Null ]
    IN /\ pr.pc = "store"
       /\ pr.handler = "payment-webhook"
       /\ payment_expectations' =
             {e \in payment_expectations : e.order_reference # pr.orderRef} \cup {row}
       /\ nextId' = nextId + 1
       /\ Answer(p, [NoResponse EXCEPT !.status = 200,
                  !.unique_amount = pr.uniqueAmount, !.expected_amount = combinedAmount])
       /\ UNCHANGED <<envVars, unique_amounts, notifications, callbacks, budget>>

(***************************************************************************)
(* QR generation for an order: handleQRISGenerateForOrder, and conversion  *)
(* on request: handleQRISConvert.                                          *)
(***************************************************************************)
\* !x of a request field: absent or the empty string.
missing(x) == x = Null \/ x = ""

\* The handler answers before it has awaited anything.
AnswerAtOnce(handler, orderRef, status, error) ==
    /\ responses' = responses \cup
          {[handler |-> handler, orderRef |-> orderRef, status |-> status, error |-> error]}
    /\ UNCHANGED procs

\* The checks of the request body, then the call of generateUniqueAmount.
StartGenerateForOrder(p, qris, originalAmount, orderRef, callbackUrl) ==
    /\ Accepts(p)
    /\ budget.register > 0
    /\ budget' = [budget EXCEPT !.register = budget.register - 1]
    /\ IF missing(qris) \/ missing(originalAmount) \/ missing(orderRef)
       THEN AnswerAtOnce("generate-for-order", orderRef, 400,
                         "Missing required fields: staticQRIS, originalAmount, orderRef")
       ELSE IF ~validateQRIS(qris)
       THEN AnswerAtOnce("generate-for-order", orderRef, 400, "Invalid QRIS format")
       ELSE /\ procs' = [procs EXCEPT ![p] =
                  [IdleProc EXCEPT !.pc = "gen_select",
                                   !.handler = "generate-for-order",
                                   !.orderRef = orderRef,
                                   !.expectedAmount = originalAmount,
                                   !.callbackUrl = callbackUrl,
                                   !.staticQRIS = qris,
                                   !.useUniqueAmount = TRUE]]
            /\ UNCHANGED responses
    /\ UNCHANGED <<envVars, storeVars, callbacks>>

\* The conversion with the combined amount, then INSERT OR REPLACE INTO
\* payment_expectations; an exception of the conversion is answered 500.
GenerateStore(p) ==
    LET pr == procs[p]
        combinedAmount == combinedAmountOf(pr.expectedAmount, pr.uniqueAmount, TRUE)
        thrown == conversionError(pr.staticQRIS, combinedAmount)
        row == [ id |-> nextId, order_reference |-> pr.orderRef,
                 expected_amount |-> combinedAmount, unique_amount |-> pr.uniqueAmount,
                 original_amount |-> pr.expectedAmount, callback_url |-> pr.callbackUrl,
                 status |-> "pending", created_at |-> toISOString(now),
                 completed_at |-> Null ]
    IN /\ pr.pc = "store"
       /\ pr.handler = "generate-for-order"
       /\ IF thrown = Null
          THEN /\ payment_expectations' =
                     {e \in payment_expectations : e.order_reference # pr.orderRef} \cup {row}
               /\ nextId' = nextId + 1
               /\ Answer(p, [NoResponse EXCEPT !.status = 200,
                          !.unique_amount = pr.uniqueAmount, !.expected_amount = combinedAmount])
          ELSE /\ Answer(p, [NoResponse EXCEPT !.status = 500, !.error = thrown])
               /\ UNCHANGED <<payment_expectations, nextId>>
       /\ UNCHANGED <<envVars, unique_amounts, notifications, callbacks, budget>>

\* The status of the answer to a conversion that threw: the worker catches
\* it at the call, the Node route in its outer handler.
conversionFailed == IF impl = "worker" THEN 400 ELSE 500

\* The checks of the request body; with an order reference the call of
\* generateUniqueAmount, without one the conversion at once.
StartConvert(p, qris, amt, orderRef) ==
    /\ Accepts(p)
    /\ budget.register > 0
    /\ budget' = [budget EXCEPT !.register = budget.register - 1]
    /\ IF missing(qris) \/ missing(amt)
       THEN AnswerAtOnce("convert", orderRef, 400, "Missing required fields: staticQRIS, amount")
       ELSE IF ~validateQRIS(qris)
       THEN AnswerAtOnce("convert", orderRef, 400, "Invalid QRIS format")
       ELSE IF missing(orderRef)
       THEN LET thrown == conversionError(qris, amt)
            IN IF thrown = Null
               THEN AnswerAtOnce("convert", orderRef, 200, Null)
               ELSE AnswerAtOnce("convert", orderRef, conversionFailed, thrown)
       ELSE /\ procs' = [procs EXCEPT ![p] =
                  [IdleProc EXCEPT !.pc = "gen_select",
                                   !.handler = "convert",
                                   !.orderRef = orderRef,
                                   !.expectedAmount = amt,
                                   !.staticQRIS = qris,
                                   !.useUniqueAmount = TRUE]]
            /\ UNCHANGED responses
    /\ UNCHANGED <<envVars, storeVars, callbacks>>

\* The conversion with the combined amount and the answer.
ConvertAnswer(p) ==
    LET pr == procs[p]
        combinedAmount == combinedAmountOf(pr.expectedAmount, pr.uniqueAmount, TRUE)
        thrown == conversionError(pr.staticQRIS, combinedAmount)
    IN /\ pr.pc = "store"
       /\ pr.handler = "convert"
       /\ IF thrown = Null
          THEN Answer(p, [NoResponse EXCEPT !.status = 200,
                     !.unique_amount = pr.uniqueAmount, !.expected_amount = combinedAmount])
          ELSE Answer(p, [NoResponse EXCEPT !.status = conversionFailed,
                     !.error = thrown])
       /\ UNCHANGED <<envVars, storeVars, callbacks, budget>>

(***************************************************************************)
(* Notification intake: handleWebhook.                                     *)
(***************************************************************************)
\* INSERT INTO notifications (...), then checkPaymentMatch if an amount was
\* detected.
StartWebhook(p, text, amountDetected) ==
    /\ Accepts(p)
    /\ budget.notify > 0
    /\ budget' = [budget EXCEPT !.notify = budget.notify - 1]
    /\ notifications' = notifications \cup
          {[ id |-> Cardinality(notifications) + 1, text |-> text,
             amount_detected |-> amountDetected, created_at |-> datetime(now) ]}
    /\ IF amountDetected # Null /\ amountDetected # ""
       THEN /\ procs' = [procs EXCEPT ![p] =
                  [IdleProc EXCEPT !.pc = "match_query", !.handler = "webhook",
                                   !.text = text, !.amountDetected = amountDetected,
                                   !.startId = nextId]]
            /\ UNCHANGED responses
       ELSE /\ procs' = procs
            /\ responses' = responses \cup
                  {[handler |-> "webhook", orderRef |-> Null, status |-> 200, error |-> Null]}
    /\ UNCHANGED <<envVars, unique_amounts, payment_expectations, nextId, callbacks>>

(***************************************************************************)
(* Payment Matcher: checkPaymentMatch.                                     *)
(***************************************************************************)
\* parseInt(amountDetected, 10).toString()
normalized(amountDetected) == numberToString(parseInt(amountDetected))

\* A pre-filter that lets every amount through.
columnAny(column, amountDetected) == TRUE

\* column = ? OR CAST(column AS INTEGER) = ?
columnMatches(column, amountDetected) ==
    column = amountDetected \/ castEquals(column, normalized(amountDetected))

\* The amount predicate of the candidate query and of the recount: the
\* worker compares expected_amount, the Node build also original_amount
\* and unique_amount.
amountMatches(e, amountDetected) ==
    IF impl = "worker"
    THEN columnMatches(e.expected_amount, amountDetected)
    ELSE \/ columnMatches(e.expected_amount, amountDetected)
         \/ columnMatches(e.original_amount, amountDetected)
         \/ columnMatches(e.unique_amount, amountDetected)

\* created_at > datetime('now', '-N minutes')
inWindow(e, minutes) == textGreater(e.created_at, datetime(now - minutes))

\* The trailing window of the candidate query, in minutes.
queryWindow == IF impl = "worker" THEN 5 ELSE 30

\* The trailing window of the recount, in minutes.
recountWindow == 5

pendingMatches(amountDetected, minutes) ==
    {e \in payment_expectations :
        e.status = "pending" /\ amountMatches(e, amountDetected) /\ inWindow(e, minutes)}

\* The orders a SELECT may return the rows in: ORDER BY created_at DESC in
\* the worker, unordered in the Node build.
resultOrders(rows) ==
    {q \in [1..Cardinality(rows) -> rows] :
        /\ \A i, j \in 1..Cardinality(rows) : i # j => q[i] # q[j]
        /\ impl = "worker" =>
              \A i, j \in 1..Cardinality(rows) :
                  i < j => ~textLess(q[i].created_at, q[j].created_at)}

\* (text + ' ' + title + ' ' + (bigText || '')).toLowerCase(), the title
\* and the big text being empty.
searchTextOf(text) == toLowerCase(text \o " " \o "" \o " " \o "")

\* searchText.includes(expectation.order_reference.toLowerCase())
referenceFound(text, e) == includes(searchTextOf(text), toLowerCase(e.order_reference))

\* A check against the order's base amount.
verifiedOriginal(e, amountDetected) ==
    normalized(amountDetected) = numberToString(parseInt(e.original_amount))

\* normalizedDetected === normalizedExpected, in the worker.
verified(e, amountDetected) ==
    normalized(amountDetected) = numberToString(parseInt(e.expected_amount))

\* The field markPaymentCompleted compares with, in the Node build.
expectedAmountToMatch(e, amountDetected) ==
    IF normalized(amountDetected) = numberToString(parseInt(e.expected_amount))
    THEN e.expected_amount
    ELSE IF normalized(amountDetected) = numberToString(parseInt(e.original_amount))
    THEN e.original_amount
    ELSE IF normalized(amountDetected) = numberToString(parseInt(e.unique_amount))
    THEN e.unique_amount
    ELSE e.expected_amount

\* normalizedDetected === normalizedExpectedToMatch, in the Node build.
verifiedNode(e, amountDetected) ==
    normalized(amountDetected)
        = numberToString(parseInt(expectedAmountToMatch(e, amountDetected)))

\* An answer that reports a failure of the matching.
InternalError == [NoResponse EXCEPT !.status = 500, !.error = "Internal server error"]

\* The answer of the webhook once matching is over.
Received == [NoResponse EXCEPT !.status = 200]

\* The match is decided: verify the amount, then go on to the UPDATE.
Accept(p, q, e, matchType) ==
    IF verified(e, procs[p].amountDetected)
    THEN /\ procs' = [procs EXCEPT ![p].pc = "match_update", ![p].expectations = q,
                                   ![p].matched = <<e>>, ![p].matchType = matchType]
         /\ UNCHANGED responses
    ELSE Answer(p, Received)

\* SELECT * FROM payment_expectations WHERE ... ORDER BY created_at DESC,
\* and the search of the order references in the text.
MatchQuery(p) ==
    LET pr == procs[p]
        rows == pendingMatches(pr.amountDetected, queryWindow)
    IN /\ pr.pc = "match_query"
       /\ impl = "worker"
       /\ IF rows = {}
          THEN Answer(p, Received)
          ELSE \E q \in resultOrders(rows) :
                 LET hits == {i \in 1..Len(q) : referenceFound(pr.text, q[i])}
                 IN IF hits # {}
                    THEN Accept(p, q, q[CHOOSE i \in hits : \A j \in hits : i <= j],
                                "order_reference_match")
                    ELSE /\ procs' = [procs EXCEPT ![p].pc = "match_recount",
                                                   ![p].expectations = q]
                         /\ UNCHANGED responses
       /\ UNCHANGED <<envVars, storeVars, callbacks, budget>>

\* SELECT COUNT(*) ... and the amount-only match on exactly one.
MatchRecount(p) ==
    LET pr == procs[p]
        recentCount == Cardinality(pendingMatches(pr.amountDetected, recountWindow))
    IN /\ pr.pc = "match_recount"
       /\ IF recentCount = 1
          THEN Accept(p, pr.expectations, pr.expectations[1], "amount_only_match")
          ELSE Answer(p, Received)
       /\ UNCHANGED <<envVars, storeVars, callbacks, budget>>

\* UPDATE payment_expectations SET status = 'completed', completed_at = ?
\* WHERE id = ?
completed(rows, id) ==
    {IF e.id = id
     THEN [e EXCEPT !.status = "completed", !.completed_at = toISOString(now)]
     ELSE e : e \in rows}

\* A revert that changes no row.
notReverted(rows, id) == rows

\* UPDATE payment_expectations SET status = 'pending', completed_at = NULL
\* WHERE id = ?
reverted(rows, id) ==
    {IF e.id = id THEN [e EXCEPT !.status = "pending", !.completed_at = Null] ELSE e
        : e \in rows}

MatchUpdate(p) ==
    LET pr == procs[p]
        e == pr.matched[1]
    IN /\ pr.pc = "match_update"
       /\ payment_expectations' = completed(payment_expectations, e.id)
       /\ IF e.callback_url # Null
          THEN /\ procs' = [procs EXCEPT ![p].pc = "match_notify"]
               /\ UNCHANGED responses
          ELSE Answer(p, Received)
       /\ UNCHANGED <<envVars, unique_amounts, nextId, notifications, callbacks, budget>>

\* The payload handed to notifyWooCommerce; id tells the expectations of one
\* order apart.
paymentData(e, amountDetected, text, matchType) ==
    [ id |-> e.id, order_reference |-> e.order_reference, amount |-> amountDetected,
      expected_amount |-> e.expected_amount, status |-> "completed",
      notification_text |-> text, match_type |-> matchType,
      timestamp |-> toISOString(now) ]

\* notifyWooCommerce(matchedExpectation.callback_url, {...})
MatchNotify(p) ==
    LET pr == procs[p]
    IN /\ pr.pc = "match_notify"
       /\ callbacks' = Append(callbacks,
             paymentData(pr.matched[1], pr.amountDetected, pr.text, pr.matchType))
       /\ Answer(p, Received)
       /\ UNCHANGED <<envVars, storeVars, budget>>

(***************************************************************************)
(* Status poll: handleWooCommercePaymentStatus.                            *)
(***************************************************************************)
\* url.searchParams.get('timeout') || 15
PollTimeoutMinutes == 15

\* text LIKE '%orderRef%': LIKE ignores the case of ASCII letters.
like(text, orderRef) == includes(toLowerCase(text), toLowerCase(orderRef))

\* SELECT * FROM payment_expectations WHERE order_reference = ? AND
\* created_at > ?, and the answers that need no further statement.
StartPaymentStatus(p, orderRef) ==
    LET timeoutDate == toISOString(now - PollTimeoutMinutes)
        rows == {e \in payment_expectations :
                    e.order_reference = orderRef /\ textGreater(e.created_at, timeoutDate)}
    IN /\ Accepts(p)
       /\ IF rows = {}
          THEN AnswerAtOnce("payment-status", orderRef, 200,
                            "No payment expectation found for this order")
          ELSE \E expectation \in rows :
                 /\ \A e \in rows : ~textGreater(e.created_at, expectation.created_at)
                 /\ IF expectation.status = "completed"
                    THEN AnswerAtOnce("payment-status", orderRef, 200, "completed")
                    ELSE /\ procs' = [procs EXCEPT ![p] =
                               [IdleProc EXCEPT !.pc = "poll_notification",
                                                !.handler = "payment-status",
                                                !.orderRef = orderRef,
                                                !.timeoutDate = timeoutDate,
                                                !.matched = <<expectation>>]]
                         /\ UNCHANGED responses
       /\ UNCHANGED <<envVars, storeVars, callbacks, budget>>

\* The notifications the poll's second SELECT finds for the expectation.
pollNotifications(expectation, timeoutDate) ==
    {n \in notifications :
        /\ like(n.text, expectation.order_reference)
        /\ columnMatches(n.amount_detected, expectation.expected_amount)
        /\ textGreater(n.created_at, timeoutDate)}

\* SELECT * FROM notifications WHERE ... AND created_at > ? LIMIT 1
PollNotification(p) ==
    LET pr == procs[p]
    IN /\ pr.pc = "poll_notification"
       /\ IF pollNotifications(pr.matched[1], pr.timeoutDate) # {}
          THEN /\ procs' = [procs EXCEPT ![p].pc = "poll_update"]
               /\ UNCHANGED responses
          ELSE Answer(p, [NoResponse EXCEPT !.status = 200,
                     !.error = "Payment not yet detected or amount does not match"])
       /\ UNCHANGED <<envVars, storeVars, callbacks, budget>>

\* UPDATE payment_expectations SET status = 'completed', completed_at = ?
\* WHERE id = ?, and the answer.
PollUpdate(p) ==
    LET pr == procs[p]
    IN /\ pr.pc = "poll_update"
       /\ payment_expectations' = completed(payment_expectations, pr.matched[1].id)
       /\ Answer(p, [NoResponse EXCEPT !.status = 200, !.error = "completed"])
       /\ UNCHANGED <<envVars, unique_amounts, nextId, notifications, callbacks, budget>>

(***************************************************************************)
(* Payment Matcher of the Node build: checkPaymentMatch and                *)
(* markPaymentCompleted.  forEach queues one chain of statements for each  *)
(* candidate; the chains of one notification interleave.                   *)
(***************************************************************************)
\* The first statement forEach queues for a candidate.
taskFor(text, e) ==
    IF referenceFound(text, e)
    THEN [e |-> e, stage |-> "update", matchType |-> "order_reference_match"]
    ELSE [e |-> e, stage |-> "count", matchType |-> "none"]

\* db.all(SELECT * FROM payment_expectations WHERE ...) and its forEach.
NodeQuery(p) ==
    LET pr == procs[p]
        rows == pendingMatches(pr.amountDetected, queryWindow)
    IN /\ pr.pc = "match_query"
       /\ impl = "node"
       /\ IF rows = {}
          THEN Answer(p, Received)
          ELSE /\ \E q \in resultOrders(rows) :
                    procs' = [procs EXCEPT ![p].pc = "node_tasks", ![p].expectations = q,
                                           ![p].tasks = {taskFor(pr.text, e) : e \in rows}]
               /\ UNCHANGED responses
       /\ UNCHANGED <<envVars, storeVars, callbacks, budget>>

\* The chains left after one of them has moved on or ended; the handler is
\* over with the last of them.
Continue(p, tasks) ==
    IF tasks = {}
    THEN Answer(p, Received)
    ELSE /\ procs' = [procs EXCEPT ![p].tasks = tasks]
         /\ UNCHANGED responses

\* One statement of one candidate's chain, with its callback.
NodeTask(p, t) ==
    LET pr == procs[p]
        rest == pr.tasks \ {t}
    IN /\ pr.pc = "node_tasks"
       /\ t \in pr.tasks
       /\ IF t.stage = "count"
          THEN \* SELECT COUNT(*) ...: pendingCount === 1
               /\ IF Cardinality(pendingMatches(pr.amountDetected, recountWindow)) = 1
                  THEN Continue(p, rest \cup
                          {[t EXCEPT !.stage = "update", !.matchType = "amount_only_match"]})
                  ELSE Continue(p, rest)
               /\ UNCHANGED <<payment_expectations, callbacks>>
          ELSE IF t.stage = "update"
          THEN \* markPaymentCompleted: UPDATE ... SET status = 'completed'
               /\ payment_expectations' = completed(payment_expectations, t.e.id)
               /\ Continue(p, rest \cup {[t EXCEPT !.stage = "updated"]})
               /\ UNCHANGED callbacks
          ELSE IF t.stage = "updated"
          THEN \* the callback of the UPDATE: verify, then notify or revert
               IF verifiedNode(t.e, pr.amountDetected)
               THEN /\ callbacks' =
                         IF t.e.callback_url # Null
                         THEN Append(callbacks,
                                 paymentData(t.e, pr.amountDetected, pr.text, t.matchType))
                         ELSE callbacks
                    /\ Continue(p, rest)
                    /\ UNCHANGED payment_expectations
               ELSE /\ Continue(p, rest \cup {[t EXCEPT !.stage = "revert"]})
                    /\ UNCHANGED <<payment_expectations, callbacks>>
          ELSE \* UPDATE ... SET status = 'pending', completed_at = NULL
               /\ payment_expectations' = reverted(payment_expectations, t.e.id)
               /\ Continue(p, rest)
               /\ UNCHANGED callbacks
       /\ UNCHANGED <<envVars, unique_amounts, nextId, notifications, budget>>

(***************************************************************************)
(* The router of the worker: handleRequest up to the call of a handler.    *)
(***************************************************************************)
\* Requests the router decides in one behaviour.
MaxRequests == 2

\* env.API_KEY || 'your-secret-api-key'
requiredApiKey == IF API_KEY = Null \/ API_KEY = "" THEN DefaultKey ELSE API_KEY

\* A key check that asks for a key and never compares it.
passesAnyKey(pathname, apiKey) ==
    \/ pathname = "/health"
    \/ requiredApiKey = DefaultKey
    \/ ~(apiKey = Null \/ apiKey = "")

\* The request passes the key check: the negation of
\* pathname !== '/health' && requiredApiKey !== 'your-secret-api-key'
\*     && (!apiKey || apiKey !== requiredApiKey)
passes(pathname, apiKey) ==
    \/ pathname = "/health"
    \/ requiredApiKey = DefaultKey
    \/ ~(apiKey = Null \/ apiKey = "" \/ apiKey # requiredApiKey)

\* The status the router answers with, 0 when it calls a handler that
\* continues as a request in flight.
routed(method, pathname, apiKey) ==
    IF method = "OPTIONS" THEN 200
    ELSE IF ~passes(pathname, apiKey) THEN 401
    ELSE IF pathname = "/health" THEN 200
    ELSE IF pathname = "/webhook" THEN (IF method = "POST" THEN 0 ELSE 405)
    ELSE IF pathname = "/woocommerce/payment-webhook" THEN (IF method = "POST" THEN 0 ELSE 405)
    ELSE 404

routeError(status) ==
    IF status = 401 THEN "Invalid or missing API key"
    ELSE IF status = 405 THEN "Method not allowed"
    ELSE IF status = 404 THEN "Endpoint not found"
    ELSE Null

\* handleRequest on one request: the preflight answer, the key check, then
\* the route. initializeTables creates only the tables that are missing, and
\* all are there. A request handed to handleWebhook or
\* handleWooCommercePaymentWebhook is one more request their first steps
\* take up; every other request is answered here.
Route(method, pathname, apiKey) ==
    LET status == routed(method, pathname, apiKey)
        exchange == [method |-> method, pathname |-> pathname, apiKey |-> apiKey,
                     status |-> status]
    IN /\ Cardinality(exchanges) < MaxRequests
       /\ exchange \notin exchanges
       /\ exchanges' = exchanges \cup {exchange}
       /\ IF status = 0
          THEN /\ budget' = IF pathname = "/webhook"
                            THEN [budget EXCEPT !.notify = budget.notify + 1]
                            ELSE [budget EXCEPT !.register = budget.register + 1]
               /\ UNCHANGED responses
          ELSE /\ responses' = responses \cup
                     {[handler |-> pathname, orderRef |-> Null, status |-> status,
                       error |-> routeError(status)]}
               /\ UNCHANGED budget
       /\ UNCHANGED <<codecVars, impl, now, API_KEY, storeVars, callbacks, procs>>

(***************************************************************************)
(* The clock.                                                              *)
(***************************************************************************)
Tick(instants) ==
    /\ \E t \in instants : t > now /\ now' = t
    /\ UNCHANGED <<codecVars, impl, API_KEY, exchanges>>
    /\ UNCHANGED <<storeVars, callbacks, responses, procs, budget>>

(***************************************************************************)
(* Specifications of the store.                                            *)
(***************************************************************************)
OrderRefs == {"INV1", "INV12", "INV3"}

CodecIdle ==
    /\ staticQRIS = ""
    /\ amount = ""
    /\ serviceFee = NoFee
    /\ converted = NotCalled
    /\ checksum = NotCalled
    /\ valid = NotValidated
    /\ extracted = NotCalled
    /\ parsed = NotParsed

StoreInit ==
    /\ CodecIdle
    /\ exchanges = {}
    /\ impl \in {"worker", "node"}
    /\ unique_amounts = {}
    /\ payment_expectations = {}
    /\ nextId = 1
    /\ notifications = {}
    /\ callbacks = <<>>
    /\ responses = {}
    /\ procs = [p \in Procs |-> IdleProc]

\* The instants the allocator is observed at: a reservation made at the first
\* has expired at the second.
AllocInstants == {Midnight - 70, Midnight + 2}

\* The registrations the shop sends: three orders of the same base amount
\* with disambiguation, one of them also without.
AllocRequests ==
    {[orderRef |-> o, expectedAmount |-> "50", useUniqueAmount |-> TRUE] : o \in OrderRefs}
        \cup {[orderRef |-> "INV3", expectedAmount |-> "050", useUniqueAmount |-> FALSE]}

AllocInit ==
    /\ StoreInit
    /\ API_KEY = DefaultKey
    /\ now = Midnight - 70
    /\ budget = [register |-> MaxRegistrations, notify |-> 0]

AllocNext ==
    \/ \E p \in Procs, r \in AllocRequests :
          StartPaymentWebhook(p, r.orderRef, r.expectedAmount, "cb", r.useUniqueAmount)
    \/ \E p \in Procs : GenSelectExisting(p)
    \/ \E p \in Procs : GenCleanup(p)
    \/ \E p \in Procs : GenDraw(p)
    \/ \E p \in Procs : GenExhausted(p)
    \/ \E p \in Procs : GenInsert(p)
    \/ \E p \in Procs : StoreExpectation(p)
    \/ Tick(AllocInstants)

SpecAlloc == AllocInit /\ [][AllocNext]_vars

\* The registrations the shop sends: one order with its exact amount, one
\* with disambiguation.
MatchRequests ==
    { [orderRef |-> "INV1", expectedAmount |-> "51", useUniqueAmount |-> FALSE],
      [orderRef |-> "INV12", expectedAmount |-> "50", useUniqueAmount |-> TRUE] }

\* The amounts the devices detect: the one order's amount, and the other
\* order's base amount written with a leading zero.
MatchAmounts == {"51", "050"}

\* Notifications naming the first order, delivered once or twice, at one instant.
MatchInit ==
    /\ StoreInit
    /\ API_KEY = DefaultKey
    /\ now = Midnight - 3
    /\ budget = [register |-> MaxRegistrations, notify |-> MaxNotifications + 1]

MatchNext ==
    \/ \E p \in Procs, r \in MatchRequests :
          StartPaymentWebhook(p, r.orderRef, r.expectedAmount, "cb", r.useUniqueAmount)
    \/ \E p \in Procs : GenSelectExisting(p)
    \/ \E p \in Procs : GenCleanup(p)
    \/ \E p \in Procs : GenDraw(p)
    \/ \E p \in Procs : GenExhausted(p)
    \/ \E p \in Procs : GenInsert(p)
    \/ \E p \in Procs : StoreExpectation(p)
    \/ \E p \in Procs, amountDetected \in MatchAmounts :
          StartWebhook(p, "paid INV1", amountDetected)
    \/ \E p \in Procs : MatchQuery(p)
    \/ \E p \in Procs : MatchRecount(p)
    \/ \E p \in Procs : MatchUpdate(p)
    \/ \E p \in Procs : MatchNotify(p)
    \/ \E p \in Procs : NodeQuery(p)
    \/ \E p \in Procs : \E t \in procs[p].tasks : NodeTask(p, t)

SpecMatch == MatchInit /\ [][MatchNext]_vars

\* The instants the window is observed at: three minutes before midnight,
\* five minutes later and ten minutes after that.
WindowInstants == {Midnight - 3, Midnight + 2, Midnight + 12}

WindowTexts == {"paid", "paid INV12"}

\* One notification of the common amount, some time after the registrations.
WindowInit ==
    /\ StoreInit
    /\ API_KEY = DefaultKey
    /\ now = Midnight - 3
    /\ budget = [register |-> MaxRegistrations, notify |-> MaxNotifications]

WindowNext ==
    \/ \E p \in Procs, r \in MatchRequests :
          StartPaymentWebhook(p, r.orderRef, r.expectedAmount, "cb", r.useUniqueAmount)
    \/ \E p \in Procs : GenSelectExisting(p)
    \/ \E p \in Procs : GenCleanup(p)
    \/ \E p \in Procs : GenDraw(p)
    \/ \E p \in Procs : GenExhausted(p)
    \/ \E p \in Procs : GenInsert(p)
    \/ \E p \in Procs : StoreExpectation(p)
    \/ \E p \in Procs, text \in WindowTexts : StartWebhook(p, text, "51")
    \/ \E p \in Procs : MatchQuery(p)
    \/ \E p \in Procs : MatchRecount(p)
    \/ \E p \in Procs : MatchUpdate(p)
    \/ \E p \in Procs : MatchNotify(p)
    \/ \E p \in Procs : NodeQuery(p)
    \/ \E p \in Procs : \E t \in procs[p].tasks : NodeTask(p, t)
    \/ Tick(WindowInstants)

SpecWindow == WindowInit /\ [][WindowNext]_vars

\* The registrations the shop sends without disambiguation: one amount
\* written with its currency, one in digits.
RevertRequests ==
    { [orderRef |-> "INV1", expectedAmount |-> "Rp51", useUniqueAmount |-> FALSE],
      [orderRef |-> "INV3", expectedAmount |-> "51", useUniqueAmount |-> FALSE] }

\* The amounts the devices detect: zero, which the store's CAST of a text
\* without leading digits equals, and the second order's amount.
RevertAmounts == {"0", "51"}

RevertInit ==
    /\ StoreInit
    /\ API_KEY = DefaultKey
    /\ now = Midnight - 3
    /\ budget = [register |-> MaxRegistrations, notify |-> MaxNotifications]

RevertNext ==
    \/ \E p \in Procs, r \in RevertRequests :
          StartPaymentWebhook(p, r.orderRef, r.expectedAmount, "cb", r.useUniqueAmount)
    \/ \E p \in Procs : StoreExpectation(p)
    \/ \E p \in Procs, amountDetected \in RevertAmounts :
          StartWebhook(p, "paid", amountDetected)
    \/ \E p \in Procs : MatchQuery(p)
    \/ \E p \in Procs : MatchRecount(p)
    \/ \E p \in Procs : MatchUpdate(p)
    \/ \E p \in Procs : MatchNotify(p)
    \/ \E p \in Procs : NodeQuery(p)
    \/ \E p \in Procs : \E t \in procs[p].tasks : NodeTask(p, t)

SpecRevert == RevertInit /\ [][RevertNext]_vars

\* The instants a reservation is observed at: when it is made, five minutes
\* after its hour has elapsed on the same day, and on the day after.
ExpiryInstants == {Midnight - 70, Midnight - 5, Midnight + 2}

\* The registrations the shop sends: two orders with disambiguation.
ExpiryRequests ==
    {[orderRef |-> o, expectedAmount |-> "50", useUniqueAmount |-> TRUE] : o \in {"INV1", "INV3"}}

ExpiryInit ==
    /\ StoreInit
    /\ API_KEY = DefaultKey
    /\ now = Midnight - 70
    /\ budget = [register |-> MaxRegistrations + 1, notify |-> 0]

ExpiryNext ==
    \/ \E p \in Procs, r \in ExpiryRequests :
          StartPaymentWebhook(p, r.orderRef, r.expectedAmount, "cb", r.useUniqueAmount)
    \/ \E p \in Procs : GenSelectExisting(p)
    \/ \E p \in Procs : GenCleanup(p)
    \/ \E p \in Procs : GenDraw(p)
    \/ \E p \in Procs : GenExhausted(p)
    \/ \E p \in Procs : GenInsert(p)
    \/ \E p \in Procs : StoreExpectation(p)
    \/ Tick(ExpiryInstants)

SpecExpiry == ExpiryInit /\ [][ExpiryNext]_vars

\* A pool of more values than one call has draws (scaled as PoolSize is).
WidePool == 2

\* Registrations of two orders with disambiguation, of one base amount or of
\* an amount that is no number.
PoolRequests ==
    { [orderRef |-> o, expectedAmount |-> a, useUniqueAmount |-> TRUE] :
        o \in {"INV1", "INV3"}, a \in {"50", "abc"} }

\* Two orders register with disambiguation at one instant, the pool being
\* wider than the retry budget.
PoolInit ==
    /\ StoreInit
    /\ API_KEY = DefaultKey
    /\ now = Midnight - 70
    /\ budget = [register |-> MaxRegistrations, notify |-> 0]

PoolNext ==
    \/ \E p \in Procs, r \in PoolRequests :
          StartPaymentWebhook(p, r.orderRef, r.expectedAmount, "cb", r.useUniqueAmount)
    \/ \E p \in Procs : GenSelectExisting(p)
    \/ \E p \in Procs : GenCleanup(p)
    \/ \E p \in Procs : GenDrawFrom(p, WidePool)
    \/ \E p \in Procs : GenExhausted(p)
    \/ \E p \in Procs : GenInsert(p)
    \/ \E p \in Procs : StoreExpectation(p)

SpecPool == PoolInit /\ [][PoolNext]_vars

\* The payloads of the QR requests: a static payload, one that repeats the
\* country field, and one too short to be accepted.
OrderPayloads ==
    { "00020101021126250016ID.CO.QRIS.WWW0303UMI5204581253033605802ID5903ABC6007JAKARTA6304AE9F",
      "00020101021126250016ID.CO.QRIS.WWW0303UMI5204581253033605802ID5903ABC6007JAKARTA62105802IDABCD63049D1F",
      "0002015802ID" }

OrderAmounts == {"50", "abc"}

\* QR requests for one order, and conversions without an order, on an empty
\* store.
OrderInit ==
    /\ StoreInit
    /\ API_KEY = DefaultKey
    /\ now = Midnight - 70
    /\ budget = [register |-> MaxRegistrations, notify |-> 0]

OrderNext ==
    \/ \E p \in Procs, q \in OrderPayloads, a \in OrderAmounts :
          StartGenerateForOrder(p, q, a, "INV1", "cb")
    \/ \E p \in Procs, q \in OrderPayloads, a \in OrderAmounts, o \in {"INV1", Null} :
          StartConvert(p, q, a, o)
    \/ \E p \in Procs : GenSelectExisting(p)
    \/ \E p \in Procs : GenCleanup(p)
    \/ \E p \in Procs : GenDraw(p)
    \/ \E p \in Procs : GenExhausted(p)
    \/ \E p \in Procs : GenInsert(p)
    \/ \E p \in Procs : GenerateStore(p)
    \/ \E p \in Procs : ConvertAnswer(p)

SpecOrder == OrderInit /\ [][OrderNext]_vars

\* The instants of the poll: the first minutes of a UTC day.
PollInstants == {Midnight + 1, Midnight + 2, Midnight + 3}

\* One order is registered, once or again, a notification that names it
\* arrives and the shop polls its status, just after midnight.
PollInit ==
    /\ StoreInit
    /\ API_KEY = DefaultKey
    /\ now = Midnight + 1
    /\ budget = [register |-> MaxRegistrations, notify |-> MaxNotifications]

PollNext ==
    \/ \E p \in Procs : StartPaymentWebhook(p, "INV1", "51", "cb", FALSE)
    \/ \E p \in Procs : StoreExpectation(p)
    \/ \E p \in Procs : \E text \in {"paid INV1", "paid"} : StartWebhook(p, text, "51")
    \/ \E p \in Procs : MatchQuery(p)
    \/ \E p \in Procs : MatchRecount(p)
    \/ \E p \in Procs : MatchUpdate(p)
    \/ \E p \in Procs : MatchNotify(p)
    \/ \E p \in Procs : NodeQuery(p)
    \/ \E p \in Procs : \E t \in procs[p].tasks : NodeTask(p, t)
    \/ \E p \in Procs : StartPaymentStatus(p, "INV1")
    \/ \E p \in Procs : PollNotification(p)
    \/ \E p \in Procs : PollUpdate(p)
    \/ Tick(PollInstants)

SpecPoll == PollInit /\ [][PollNext]_vars

\* The requests the clients send to the worker: the preflight and the two
\* usual methods, on four paths, without a key, with the key and with another.
Methods == {"OPTIONS", "GET", "POST"}

Pathnames == {"/health", "/webhook", "/woocommerce/payment-webhook", "/nowhere"}

ApiKeys == {Null, "k1", "wrong"}

\* The worker with no key set, with the default key and with a key of its own.
AuthInit ==
    /\ StoreInit
    /\ impl = "worker"
    /\ API_KEY \in {Null, DefaultKey, "k1"}
    /\ now = Midnight - 3
    /\ budget = [register |-> 0, notify |-> 0]

AuthNext ==
    \/ \E method \in Methods, pathname \in Pathnames, apiKey \in ApiKeys :
          Route(method, pathname, apiKey)
    \/ \E p \in Procs : StartPaymentWebhook(p, "INV1", "51", "cb", FALSE)
    \/ \E p \in Procs : StoreExpectation(p)
    \/ \E p \in Procs : StartWebhook(p, "paid", "51")
    \/ \E p \in Procs : MatchQuery(p)
    \/ \E p \in Procs : MatchRecount(p)
    \/ \E p \in Procs : MatchUpdate(p)
    \/ \E p \in Procs : MatchNotify(p)

SpecAuth == AuthInit /\ [][AuthNext]_vars

(***************************************************************************)
(* The manual reference reconstruction of test-qris-fixed.js, steps 1-5.   *)
(***************************************************************************)
reconstructed(testQRIS, amt) ==
    LET step0 == substring(testQRIS, 0, Len(testQRIS) - 4)
        step1 == replaceFirst(step0, "010211", "010212")
        parts == split(step1, "5802ID")
        amountField == "54" \o padStart(toString(Len(amt)), 2, "0") \o amt
    IN parts[1] \o amountField \o "5802ID" \o parts[2]

(***************************************************************************)
(* Properties of the codec.                                                *)
(***************************************************************************)
\* The payloads the reference reconstruction is defined on: the converter
\* returned, with no service fee, for a payload with one merchant sentinel.
ConvertedPlain ==
    /\ converted.ok
    /\ serviceFee = NoFee
    /\ Len(split(staticQRIS, "5802ID")) = 2

\* C9: the last 4 characters of every payload convertStaticToDynamic returns
\* are the crc16 of the payload without those 4 characters.
C9_TrailerIsChecksum ==
    converted.ok =>
        LET payload == converted.value
            n == Len(payload)
        IN substring(payload, n - 4, n) = calculateCRC16(substring(payload, 0, n - 4))

HexChars == "0123456789ABCDEF"

\* C11: calculateCRC16 returns exactly 4 characters, each an uppercase
\* hexadecimal digit.
C11_FourHexDigits ==
    checksum.ok =>
        /\ Len(checksum.value) = 4
        /\ \A i \in 1..Len(checksum.value) : posIn(HexChars, charAt(checksum.value, i)) # 0

RECURSIVE hexValue(_, _)
\* The number a string of hexadecimal digits denotes, acc so far.
hexValue(hex, acc) ==
    IF Len(hex) = 0 THEN acc
    ELSE hexValue(SubSeq(hex, 2, Len(hex)), (acc * 16) + (posIn(HexChars, charAt(hex, 1)) - 1))

RECURSIVE ccittShift(_, _)
\* The reference's shift steps on a register kept to 16 bits.
ccittShift(reg, i) ==
    IF i = 0 THEN reg
    ELSE LET next == IF reg >= 32768
                     THEN BitXor((reg * 2) % Pow2_16, 4129)
                     ELSE (reg * 2) % Pow2_16
         IN IF next >= 0 THEN ccittShift(next, i - 1) ELSE next

RECURSIVE ccittFalse(_, _, _)
\* CRC-16/CCITT-FALSE: the byte is XORed into the high byte of the 16-bit
\* register, 8 shift steps follow, no final XOR.
ccittFalse(str, c, reg) ==
    IF c > Len(str) THEN reg
    ELSE LET next == ccittShift(BitXor(reg, charCodeAt(charAt(str, c)) * 256), 8)
         IN IF next >= 0 THEN ccittFalse(str, c + 1, next) ELSE next

\* C12: the 16-bit result of calculateCRC16 is the CRC-16/CCITT-FALSE of its
\* input, computed with the register masked to 16 bits at every step.
C12_IsCcittFalse ==
    checksum.ok => hexValue(checksum.value, 0) = ccittFalse(staticQRIS, 1, 65535)

\* The check value of CRC-16/CCITT-FALSE.
C12_Witness ==
    /\ checksum.ok
    /\ staticQRIS = "123456789"
    /\ checksum.value = "29B1"
    /\ ccittFalse(staticQRIS, 1, 65535) = 10673

RECURSIVE occurrences(_, _, _)
\* The number of occurrences of pat in s from position from1 (1-based) on.
occurrences(s, pat, from1) ==
    LET i == indexOfFrom(s, pat, from1)
    IN IF i = 0 THEN 0 ELSE 1 + occurrences(s, pat, i + Len(pat))

\* The argument is there: neither absent nor empty.
Present(arg) == arg # Null /\ arg # ""

\* A non-empty string of ASCII digits only.
AsciiDigits(s) == Present(s) /\ \A i \in 1..Len(s) : isDigit(charAt(s, i))

\* C13: for a payload validateQRIS accepts, with one merchant sentinel, and
\* a positive integer amount in digits, extractAmount of the converted
\* payload is the amount.
C13_RoundTrip ==
    (/\ extracted.ok
     /\ validateQRIS(staticQRIS)
     /\ occurrences(staticQRIS, "5802ID", 1) = 1
     /\ AsciiDigits(amount)
     /\ parseInt(amount) > 0)
        => extracted.value = amount

\* C14: the conversion of a payload with no merchant sentinel, or with two
\* or more, returns no payload; when both arguments pass the argument
\* checks, the error is the structural one.
C14_StructuralError ==
    (converted # NotCalled /\ occurrences(staticQRIS, "5802ID", 1) # 1)
        => /\ ~converted.ok
           /\ converted.value = Null
           /\ (Present(staticQRIS) /\ AsciiDigits(amount))
                 => converted.error
                       = "QRIS conversion failed: Invalid QRIS format: missing merchant location"

\* A payload with two sentinels has been refused.
C14_Witness ==
    /\ converted = Thrown("QRIS conversion failed: Invalid QRIS format: missing merchant location")
    /\ amount = "50000"
    /\ staticQRIS = "0002010102115802ID5802ID5903ABC6304D23D"
    /\ occurrences(staticQRIS, "5802ID", 1) = 2

\* C15: the conversion returns no payload when the amount is not a non-empty
\* string of ASCII digits; the error is the required-field one when the
\* payload or the amount is empty or absent, and the format one when both
\* are there and the amount is not made of digits.
C15_ArgumentErrors ==
    converted # NotCalled =>
        /\ ~AsciiDigits(amount) => (~converted.ok /\ converted.value = Null)
        /\ (~Present(staticQRIS) \/ ~Present(amount))
              => converted = Thrown("QRIS conversion failed: Static QRIS and amount are required")
        /\ (Present(staticQRIS) /\ Present(amount) /\ ~AsciiDigits(amount))
              => converted = Thrown("QRIS conversion failed: Amount must be numeric string without formatting")

\* An amount with a decimal point has been refused with the format error.
C15_Witness ==
    /\ converted = Thrown("QRIS conversion failed: Amount must be numeric string without formatting")
    /\ amount = "5.5"
    /\ staticQRIS = "0002010102115802ID5903ABC6304D23D"

\* C16: validateQRIS returns true exactly for the payloads of 50 to 500
\* characters that begin with '000201' and contain '5802ID'.
C16_ValidExactly ==
    valid.called =>
        (valid.result <=> /\ Len(staticQRIS) >= 50
                          /\ Len(staticQRIS) <= 500
                          /\ startsWith(staticQRIS, "000201")
                          /\ includes(staticQRIS, "5802ID"))

\* The converted payload begins with the static payload's part before the
\* sentinel (dynamic marker in place), the amount field, the text fee and
\* the sentinel.
AmountFieldThen(fee) ==
    LET step1 == replaceFirst(substring(staticQRIS, 0, Len(staticQRIS) - 4),
                              "010211", "010212")
        head == SubSeq(step1, 1, indexOf(step1, "5802ID") - 1)
    IN startsWith(converted.value,
                  head \o "54" \o padStart(toString(Len(amount)), 2, "0") \o amount
                       \o fee \o "5802ID")

\* The fee value with its 2-digit length.
Measured(value) == padStart(toString(Len(value)), 2, "0") \o value

\* C19 as stated: a descriptor of type fixed puts '55020256' + length +
\* value, one of type percent '55020357' + length + value, between the amount
\* field and the sentinel; with no descriptor the sentinel follows directly.
C19_FeeFieldFixed ==
    converted.ok =>
        /\ serviceFee.type = "fixed"
              => AmountFieldThen("55020256" \o Measured(serviceFee.value))
        /\ serviceFee.type = "percent"
              => AmountFieldThen("55020357" \o Measured(serviceFee.value))
        /\ serviceFee = NoFee => AmountFieldThen("")

\* C19 amended: the type of the fixed fee is 'rupiah'; a descriptor of any
\* other type than rupiah and percent adds nothing.
C19_FeeField ==
    converted.ok =>
        /\ serviceFee.type = "rupiah"
              => AmountFieldThen("55020256" \o Measured(serviceFee.value))
        /\ serviceFee.type = "percent"
              => AmountFieldThen("55020357" \o Measured(serviceFee.value))
        /\ serviceFee.type \notin {"rupiah", "percent"} => AmountFieldThen("")

\* A fee of 500 rupiah follows the amount 50000.
C19_Witness ==
    /\ converted.ok
    /\ serviceFee = [type |-> "rupiah", value |-> "500"]
    /\ amount = "50000"
    /\ includes(converted.value, "54055000055020256035005802ID")

(***************************************************************************)
(* Properties of the allocator and of registration.                        *)
(***************************************************************************)
\* The reservations whose hour has not elapsed.
Unexpired(rows) == {r \in rows : textGreater(r.expires_at, toISOString(now))}

\* The slot's generateUniqueAmount call returns in this step.
Returns(p) ==
    /\ procs[p].pc \in {"gen_select", "gen_insert"}
    /\ procs'[p].pc = "store"

\* C1: under any interleaving of reserve calls, no two reservations, active
\* or not, carry the same value, so at most pool-size reservations exist; and
\* a call that succeeds for an order returns a value whose one reservation
\* is active and is that order's.
C1_Exclusive ==
    [][/\ \A r1, r2 \in unique_amounts' : r1.unique_amount = r2.unique_amount => r1 = r2
       /\ Cardinality(unique_amounts') <= PoolSize
       /\ \A p \in Procs : Returns(p) =>
             /\ \E r \in unique_amounts' :
                   /\ r.unique_amount = procs'[p].uniqueAmount
                   /\ r.order_reference = procs[p].orderRef
                   /\ Active(r)
             /\ \A r \in unique_amounts' :
                   r.unique_amount = procs'[p].uniqueAmount
                      => r.order_reference = procs[p].orderRef]_vars

\* As many orders as the pool has values hold a reservation, and the call
\* for a further order has failed.
C1_Witness ==
    /\ now = Midnight - 70
    /\ Cardinality({r.order_reference : r \in {q \in unique_amounts : Active(q)}}) = PoolSize
    /\ \E a \in responses : a.status = 500 /\ a.handler = "payment-webhook"
    /\ \A r \in unique_amounts : \A a \in responses :
          a.status = 500 => a.orderRef # r.order_reference

\* C6: a reserve call for an order that already holds its one unexpired
\* reservation returns that reservation's 3-digit value and leaves the
\* reservations as they are.
C6_Idempotent ==
    [][\A p \in Procs :
         LET own == {r \in Unexpired(unique_amounts) : r.order_reference = procs[p].orderRef}
         IN (procs[p].pc = "gen_select" /\ procs'[p] # procs[p] /\ Cardinality(own) = 1)
               => /\ \A r \in own : procs'[p].uniqueAmount = r.unique_amount
                  /\ Len(procs'[p].uniqueAmount) = 3
                  /\ procs'[p].pc = "store"
                  /\ unique_amounts' = unique_amounts]_vars

\* The second registration of an order has got back the value the first one stored.
C6_Witness ==
    \E p \in Procs :
        /\ procs[p].pc = "store"
        /\ procs[p].useUniqueAmount
        /\ \E e \in payment_expectations :
              /\ e.order_reference = procs[p].orderRef
              /\ e.unique_amount = procs[p].uniqueAmount
        /\ Cardinality({r \in unique_amounts : r.order_reference = procs[p].orderRef}) = 1

C17_BoundedDraws ==
    \A p \in Procs :
        procs[p].pc \in {"gen_draw", "gen_insert"} => procs[p].attempts <= MaxAttempts

\* The registration in slot p stores its expectation in this step.
Registers(p) ==
    /\ procs[p].pc = "store"
    /\ procs'[p].pc = "idle"

\* C20: a registration leaves every completed expectation completed, with
\* its completed_at, the one of its own order reference included.
C20_CompletedKept ==
    [][\A p \in Procs : Registers(p) =>
          \A e \in payment_expectations :
              e.status = "completed" =>
                  \E x \in payment_expectations' :
                      /\ x.order_reference = e.order_reference
                      /\ x.status = "completed"
                      /\ x.completed_at = e.completed_at]_vars

(***************************************************************************)
(* Properties of the matcher.                                              *)
(***************************************************************************)
\* The handler in slot p has decided to complete expectation e.
Completing(p, e) ==
    \/ /\ procs[p].pc = "match_update"
       /\ procs[p].matched = <<e>>
    \/ /\ procs[p].pc = "node_tasks"
       /\ \E t \in procs[p].tasks : t.e = e /\ t.stage \in {"update", "updated"}

\* The handler in slot p found exactly the two pending candidates e1 and e2,
\* of the same expected amount.
FoundTwo(p, e1, e2) ==
    /\ procs[p].handler = "webhook"
    /\ Len(procs[p].expectations) = 2
    /\ procs[p].expectations[1] = e1
    /\ procs[p].expectations[2] = e2
    /\ e1.expected_amount = e2.expected_amount

\* C2: a notification delivered twice, in sequence or to two concurrent
\* handlers, has the callback of the expectation it completes emitted at
\* most once.
C2_CallbackOnce ==
    \A i, j \in DOMAIN callbacks :
        (/\ callbacks[i].id = callbacks[j].id
         /\ callbacks[i].notification_text = callbacks[j].notification_text
         /\ callbacks[i].amount = callbacks[j].amount) => i = j

\* C3: once the notifications are processed, every completed expectation has
\* an integer-normalized expected_amount that some notification's
\* integer-normalized detected amount equals.
C3_VerifiedMatch ==
    (\A p \in Procs : Free(p)) =>
        \A e \in payment_expectations :
            e.status = "completed" =>
                \E n \in notifications :
                    parseInt(n.amount_detected) = parseInt(e.expected_amount)

\* C4: a notification that finds two pending expectations of the same
\* expected amount and names neither order in its text completes neither.
C4_AmbiguousNoOp ==
    \A p \in Procs : \A e1, e2 \in payment_expectations :
        (/\ FoundTwo(p, e1, e2)
         /\ ~referenceFound(procs[p].text, e1)
         /\ ~referenceFound(procs[p].text, e2))
            => ~Completing(p, e1) /\ ~Completing(p, e2) /\ callbacks = <<>>

\* C5: a notification that finds two pending expectations of the same
\* expected amount and names exactly one of the orders in its text does not
\* complete the other one.
C5_Precedence ==
    \A p \in Procs :
        \A e1 \in {procs[p].expectations[i] : i \in DOMAIN procs[p].expectations} :
        \A e2 \in {procs[p].expectations[i] : i \in DOMAIN procs[p].expectations} :
            (/\ procs[p].handler = "webhook"
             /\ Len(procs[p].expectations) = 2
             /\ e1 # e2
             /\ e1.expected_amount = e2.expected_amount
             /\ referenceFound(procs[p].text, e1)
             /\ ~referenceFound(procs[p].text, e2))
                => ~Completing(p, e2)

\* The webhook handler in slot p answers in this step.
Finishes(p) ==
    /\ procs[p].handler = "webhook"
    /\ procs'[p].pc = "idle"

\* The expectations, registered with disambiguation before the notification
\* of slot p arrived, that the notification reports: its amount is their
\* expected_amount and its text contains their order reference.
Reported(p) ==
    {e \in payment_expectations' :
        /\ e.id < procs[p].startId
        /\ Len(e.unique_amount) = 3
        /\ e.expected_amount = procs[p].amountDetected
        /\ referenceFound(procs[p].text, e)}

\* C7 as stated: when the handler of a notification answers, every
\* expectation the notification reports is completed.
C7_LaterNotification ==
    [][\A p \in Procs : Finishes(p) =>
          \A e \in Reported(p) : e.status = "completed"]_vars

\* C7 amended: when the handler of a notification answers within five
\* minutes of the registration, every expectation the notification reports
\* is completed, provided the text contains no other order's reference.
C7_Completes ==
    [][\A p \in Procs : Finishes(p) =>
          \A e \in Reported(p) :
              (/\ ~textLess(e.created_at, toISOString(now' - 5))
               /\ \A x \in payment_expectations' :
                     x.order_reference # e.order_reference
                        => ~referenceFound(procs[p].text, x))
                 => e.status = "completed"]_vars

\* The order registered three minutes before midnight is completed by the
\* notification that names it two minutes after midnight.
C7_Witness ==
    /\ \E e \in payment_expectations :
          /\ e.order_reference = "INV12"
          /\ e.unique_amount = "001"
          /\ e.expected_amount = "51"
          /\ e.status = "completed"
          /\ e.created_at = toISOString(Midnight - 3)
          /\ e.completed_at = toISOString(Midnight + 2)
    /\ Len(callbacks) = 1
    /\ callbacks[1].order_reference = "INV12"
    /\ callbacks[1].match_type = "order_reference_match"
    /\ callbacks[1].amount = "51"
    /\ \A p \in Procs : Free(p)

\* The handler in slot p runs, in this step, the statement t of a candidate.
Runs(p, t) ==
    /\ procs[p].pc = "node_tasks"
    /\ t \in procs[p].tasks
    /\ t \notin procs'[p].tasks

\* C18: when the verification that follows the UPDATE to completed finds the
\* normalized amounts unequal, no callback is emitted and the revert is
\* queued; the revert leaves the expectation pending with completed_at
\* cleared and emits no callback.  The worker verifies before its UPDATE and
\* never goes on to the UPDATE with unequal amounts.
C18_Reverted ==
    [][\A p \in Procs :
         /\ \A t \in procs[p].tasks :
               /\ (Runs(p, t) /\ t.stage = "updated"
                       /\ ~verifiedNode(t.e, procs[p].amountDetected))
                     => /\ callbacks' = callbacks
                        /\ [t EXCEPT !.stage = "revert"] \in procs'[p].tasks
               /\ (Runs(p, t) /\ t.stage = "revert")
                     => /\ callbacks' = callbacks
                        /\ \A x \in payment_expectations' :
                               x.id = t.e.id
                                  => x.status = "pending" /\ x.completed_at = Null
         /\ procs'[p].pc = "match_update"
               => verified(procs'[p].matched[1], procs'[p].amountDetected)]_vars

\* The order registered for 'Rp51' was completed by a notification of the
\* amount 0, the verification has failed and the revert is queued.
C18_Witness ==
    \E p \in Procs : \E t \in procs[p].tasks :
        /\ t.stage = "revert"
        /\ procs[p].amountDetected = "0"
        /\ t.e.expected_amount = "Rp51"
        /\ \E x \in payment_expectations :
              x.id = t.e.id /\ x.status = "completed" /\ x.completed_at # Null
        /\ callbacks = <<>>

(***************************************************************************)
(* Properties of extractAmount on a payload of its own.                    *)
(***************************************************************************)
Malformed == "<malformed>"

RECURSIVE fieldValue(_, _, _)
\* The value of the first field of the tag, reading the fields of the payload
\* one after the other from position pos1: Null when no field has the tag,
\* Malformed when the fields do not tile the payload.
fieldValue(qris, tag, pos1) ==
    IF pos1 > Len(qris) THEN Null
    ELSE IF pos1 + 3 > Len(qris) THEN Malformed
    ELSE IF ~(isDigit(charAt(qris, pos1 + 2)) /\ isDigit(charAt(qris, pos1 + 3))) THEN Malformed
    ELSE LET length == (digitValue(charAt(qris, pos1 + 2)) * 10)
                          + digitValue(charAt(qris, pos1 + 3))
         IN IF pos1 + 3 + length > Len(qris) THEN Malformed
            ELSE IF SubSeq(qris, pos1, pos1 + 1) = tag
                 THEN SubSeq(qris, pos1 + 4, pos1 + 3 + length)
                 ELSE fieldValue(qris, tag, pos1 + 4 + length)

\* C21: extractAmount of a well-formed payload is the value of its field 54,
\* of the declared length, and null when the payload has no field 54.
C21_AmountField ==
    (/\ extracted.ok
     /\ converted = NotCalled
     /\ fieldValue(staticQRIS, "54", 1) # Malformed)
        => extracted.value = fieldValue(staticQRIS, "54", 1)

(***************************************************************************)
(* Properties of the router.                                               *)
(***************************************************************************)
\* A key of its own is configured and the request does not carry it.
LacksKey(x) ==
    /\ API_KEY \notin {Null, "", DefaultKey}
    /\ x.pathname # "/health"
    /\ x.apiKey # API_KEY

\* The router answered 401 and nothing else happened: no table, request in
\* flight, pending request or callback changed.
Refused(x) ==
    /\ x.status = 401
    /\ UNCHANGED <<storeVars, procs, budget, callbacks>>

FindsNone(p) ==
    /\ procs[p].pc = "match_query"
    /\ procs'[p] # procs[p]
    /\ pendingMatches(procs[p].amountDetected, queryWindow) = {}

\* C23: a notification whose amount no pending expectation in the window
\* matches ends in that step with the plain answer 200; no expectation and
\* no callback changes.
C23_NonMatch ==
    [][\A p \in Procs :
          FindsNone(p) =>
              /\ procs'[p] = IdleProc
              /\ responses' = responses \cup
                    {[handler |-> "webhook", orderRef |-> Null, status |-> 200, error |-> Null]}
              /\ payment_expectations' = payment_expectations
              /\ callbacks' = callbacks]_vars

\* A notification was answered while an expectation of another amount is
\* pending, and nothing was completed or called back.
C23_Witness ==
    /\ notifications # {}
    /\ \A n \in notifications : n.amount_detected = "51"
    /\ \E a \in responses : a.handler = "webhook" /\ a.status = 200
    /\ \E e \in payment_expectations : e.expected_amount = "Rp51"
    /\ \A e \in payment_expectations : e.status = "pending" /\ e.expected_amount = "Rp51"
    /\ \A p \in Procs : Free(p)
    /\ callbacks = <<>>

(***************************************************************************)
(* Properties of the matcher on one notification with several candidates.  *)
(***************************************************************************)
\* The expectations the handler in slot p has run its UPDATE ... SET
\* status = 'completed' for and not finished with.
Updated(p) ==
    IF procs[p].pc = "match_notify" THEN {procs[p].matched[1].id}
    ELSE IF procs[p].pc = "node_tasks"
    THEN {t.e.id : t \in {u \in procs[p].tasks : u.stage = "updated"}}
    ELSE {}

\* C24: the handler of one notification completes at most one expectation.
C24_AtMostOne == \A p \in Procs : Cardinality(Updated(p)) <= 1

\* The orders whose expectation the handler in slot p accepts in this step on the count
\* alone, as amount_only_match.
AmountOnly(p) ==
    IF procs[p].pc = "match_recount" /\ procs'[p].pc = "match_update"
    THEN {procs'[p].matched[1].order_reference}
    ELSE IF procs[p].pc = "node_tasks" /\ procs'[p].pc = "node_tasks"
    THEN {t.e.order_reference : t \in {u \in procs'[p].tasks \ procs[p].tasks :
                             u.stage = "update" /\ u.matchType = "amount_only_match"}}
    ELSE {}

\* The orders with a pending expectation of the amount in the trailing window.
Pending(amountDetected, minutes) == {e.order_reference : e \in pendingMatches(amountDetected, minutes)}

\* C25: an expectation accepted as amount_only_match is the one pending
\* expectation of the detected amount in the trailing window, which is the
\* same for the candidate query and for the recount.
C25_ExactlyOne ==
    [][\A p \in Procs : \A order \in AmountOnly(p) :
          /\ Pending(procs[p].amountDetected, recountWindow) = {order}
          /\ Pending(procs[p].amountDetected, queryWindow) = {order}]_vars

\* C26: the candidates the query of a notification returns were created
\* within the five minutes before the query.
C26_FiveMinutes ==
    [][\A p \in Procs :
          (procs[p].pc = "match_query" /\ procs'[p].pc # "match_query") =>
              \A i \in DOMAIN procs'[p].expectations :
                  ~textLess(procs'[p].expectations[i].created_at, toISOString(now - 5))]_vars

(***************************************************************************)
(* Properties of the verification that follows the pre-filter.             *)
(***************************************************************************)
\* The candidates the query of the handler in slot p returned.
Candidates(p) == {procs[p].expectations[i] : i \in DOMAIN procs[p].expectations}

\* The normalized equality check of the build.
Verifies(e, amountDetected) ==
    IF impl = "worker" THEN verified(e, amountDetected) ELSE verifiedNode(e, amountDetected)

\* The amounts of the expectation all begin with a decimal digit.
DigitLed(e) ==
    /\ isDigit(charAt(e.expected_amount, 1))
    /\ isDigit(charAt(e.original_amount, 1))
    /\ isDigit(charAt(e.unique_amount, 1))

\* C27 as stated: every candidate the pre-filter query returned passes the
\* normalized equality check, and no revert is ever queued.
C27_Unreachable ==
    \A p \in Procs :
        /\ \A e \in Candidates(p) : Verifies(e, procs[p].amountDetected)
        /\ \A t \in procs[p].tasks : t.stage # "revert"

\* C27: every candidate the pre-filter query returned whose amounts begin
\* with a decimal digit passes the normalized equality check, and no revert
\* is queued for such a candidate.
C27_DigitLed ==
    \A p \in Procs :
        /\ \A e \in Candidates(p) : DigitLed(e) => Verifies(e, procs[p].amountDetected)
        /\ \A t \in procs[p].tasks : t.stage = "revert" => ~DigitLed(t.e)

\* The order registered for '51' is a candidate of a notification of the
\* amount 51, passes the check and is completed with its callback.
C27_Witness ==
    /\ \E e \in payment_expectations :
          e.order_reference = "INV3" /\ e.expected_amount = "51" /\ e.status = "completed"
    /\ \E i \in DOMAIN callbacks :
          callbacks[i].order_reference = "INV3" /\ callbacks[i].amount = "51"

(***************************************************************************)
(* Properties of parseQRIS.                                                *)
(***************************************************************************)
\* C28: every iteration of the loop of parseQRIS that does not leave the
\* loop moves the scan position forward.
C28_Advances ==
    [][(parsed.pc = "loop" /\ parsed'.pc = "loop") => parsed'.pos > parsed.pos]_vars

(***************************************************************************)
(* Properties of the point-of-initiation marker.                           *)
(***************************************************************************)
\* The payload without its last 4 characters, the sixth character of its
\* first '010211' turned into '2'; as it is when it has no '010211'.
Remarked(payload) ==
    LET body == substring(payload, 0, Len(payload) - 4)
        at == indexOf(body, "010211")
    IN IF at = 0 THEN body
       ELSE SubSeq(body, 1, at + 4) \o "2" \o SubSeq(body, at + 6, Len(body))

\* What convertStaticToDynamic puts in front of the sentinel.
Inserted ==
    "54" \o padStart(toString(Len(amount)), 2, "0") \o amount \o feeField(serviceFee)

\* C29: the payload convertStaticToDynamic returns is, up to its checksum,
\* the static payload without its last 4 characters with the first '010211'
\* made '010212' and nothing else altered, the new fields standing in front
\* of the sentinel; a payload without '010211' is converted all the same,
\* its characters unaltered.
C29_OneMarker ==
    /\ converted.ok =>
          LET body == Remarked(staticQRIS)
              at == indexOf(body, "5802ID")
              whole == SubSeq(body, 1, at - 1) \o Inserted \o SubSeq(body, at, Len(body))
          IN /\ startsWith(converted.value, whole)
             /\ converted.value = whole \o calculateCRC16(whole)
    /\ (/\ converted # NotCalled
        /\ staticQRIS = "0002015802ID5903ABC6304D23D"
        /\ AsciiDigits(amount)) => converted.ok

\* A payload with two markers is converted: the first is rewritten, the
\* second is not; and so is a payload without a marker.
C29_Witness ==
    /\ converted.ok
    /\ \/ /\ staticQRIS = "0002010102110102115802ID6304D23D"
          /\ startsWith(converted.value, "00020101021201021154")
       \/ /\ staticQRIS = "0002015802ID5903ABC6304D23D"
          /\ startsWith(converted.value, "00020154")

(***************************************************************************)
(* Properties of the allocator once a reservation's hour has elapsed.      *)
(***************************************************************************)
\* C30: a reservation whose expires_at has passed is not returned for its
\* order any more, and when the expires_at of every reservation has passed
\* no draw and no insert fails on a value being taken.
C30_Eligible ==
    [][\A p \in Procs :
          /\ (procs[p].pc = "gen_select" /\ procs'[p].pc = "store") =>
                 \E r \in Unexpired(unique_amounts) :
                     /\ r.order_reference = procs[p].orderRef
                     /\ r.unique_amount = procs'[p].uniqueAmount
          /\ (/\ procs[p].pc \in {"gen_draw", "gen_insert"}
              /\ procs'[p].pc = "gen_draw"
              /\ procs'[p].attempts = procs[p].attempts + 1) =>
                 Unexpired(unique_amounts) # {}]_vars

\* A reservation is deleted in this step.
Purges == \E r \in unique_amounts : r \notin unique_amounts'

\* C31: a step in which the clock passes or a reservation is purged leaves
\* every payment expectation as it is.
C31_ExpectationsKept ==
    [][(Purges \/ now' # now) => payment_expectations' = payment_expectations]_vars

\* The reservation of the first order has been purged on the day after, and
\* its expectation is still there, pending, with its amounts.
C31_Witness ==
    /\ now = Midnight + 2
    /\ \A r \in unique_amounts : r.order_reference # "INV1"
    /\ \E e \in payment_expectations :
          /\ e.order_reference = "INV1"
          /\ e.status = "pending"
          /\ e.unique_amount = "001"
          /\ e.expected_amount = "51"
          /\ e.created_at = toISOString(Midnight - 70)
    /\ \E r \in unique_amounts : r.order_reference = "INV3"

\* C32: the lookup of a reserve call for an order that holds a reservation
\* whose hour has not elapsed ends the call, and the reservations are after
\* it what they were before: none inserted, none purged, no expires_at moved.
C32_StoreUnchanged ==
    [][\A p \in Procs :
          (/\ procs[p].pc = "gen_select"
           /\ procs'[p] # procs[p]
           /\ \E r \in Unexpired(unique_amounts) : r.order_reference = procs[p].orderRef)
             => /\ unique_amounts' = unique_amounts
                /\ procs'[p].pc = "store"]_vars

\* A second registration of the first order, made within the reservation's
\* hour, has its value back; the one reservation still ends
\* when it did.
C32_Witness ==
    \E p \in Procs :
        /\ procs[p].pc = "store"
        /\ procs[p].orderRef = "INV1"
        /\ procs[p].uniqueAmount = "001"
        /\ \E e \in payment_expectations : e.order_reference = "INV1"
        /\ unique_amounts =
              {[unique_amount |-> "001", order_reference |-> "INV1",
                created_at |-> datetime(Midnight - 70),
                expires_at |-> toISOString(Midnight - 10)]}
        /\ now = Midnight - 70

(***************************************************************************)
(* Properties of the allocator's retry budget.                             *)
(***************************************************************************)
\* The values of the wide pool, as the draws render them.
WideValues == {padStart(toString(n), 3, "0") : n \in 1..WidePool}

\* The reserve call of slot p fails in this step.
Exhausts(p) == procs[p].pc = "gen_draw" /\ procs'[p].pc = "idle"

\* The reserve call of slot p counts a failed attempt in this step.
CountsAttempt(p) ==
    /\ procs[p].pc \in {"gen_draw", "gen_insert"}
    /\ procs'[p].pc = "gen_draw"
    /\ procs'[p].attempts = procs[p].attempts + 1

\* No other slot is in a registration.
Alone(p) == \A q \in Procs \ {p} : Free(q)

\* C33 as stated: a reserve call that no other call runs alongside fails
\* only when every value of the pool has an active reservation.
C33_OnlyExhausted ==
    [][\A p \in Procs :
          (Exhausts(p) /\ Alone(p)) =>
              \A v \in WideValues : \E r \in unique_amounts : r.unique_amount = v /\ Active(r)]_vars

\* C33: a reserve call fails only when its retry budget is used up, every
\* attempt it counts has met a value that has a reservation, and the insert
\* of a value that has none returns it.
C33_BudgetUsed ==
    [][\A p \in Procs :
          /\ Exhausts(p) =>
                /\ procs[p].attempts >= MaxAttempts
                /\ \E a \in responses' : a.status = 500 /\ a.orderRef = procs[p].orderRef
          /\ CountsAttempt(p) =>
                IF procs[p].pc = "gen_insert"
                THEN \E r \in unique_amounts : r.unique_amount = procs[p].uniqueAmount
                ELSE \E r \in unique_amounts : Active(r)
          /\ (/\ procs[p].pc = "gen_insert"
              /\ procs'[p] # procs[p]
              /\ \A r \in unique_amounts : r.unique_amount # procs[p].uniqueAmount)
                => /\ procs'[p].pc = "store"
                   /\ \E r \in unique_amounts' \ unique_amounts :
                         /\ r.unique_amount = procs[p].uniqueAmount
                         /\ r.order_reference = procs[p].orderRef]_vars

\* The call for a second order has failed while one value of the pool is
\* reserved, for the first order, and the other is free.
C33_Witness ==
    /\ \E a \in responses : a.status = 500 /\ a.orderRef = "INV3"
    /\ Cardinality(unique_amounts) = 1
    /\ \A r \in unique_amounts : r.order_reference = "INV1" /\ Active(r)
    /\ \E a \in responses : a.status = 200 /\ a.orderRef = "INV1"

(***************************************************************************)
(* Properties of the reservations of one order.                            *)
(***************************************************************************)
\* C34: an order reference has at most one active reservation at any time,
\* also when two reserve calls for it run concurrently.
C34_OnePerOrder ==
    \A r1 \in unique_amounts, r2 \in unique_amounts :
        (r1.order_reference = r2.order_reference /\ Active(r1) /\ Active(r2)) => r1 = r2

(***************************************************************************)
(* Properties of the QR requests that fail.                                *)
(***************************************************************************)
\* No request for the order is being handled.
Quiet(orderRef) == \A p \in Procs : Free(p) \/ procs[p].orderRef # orderRef

\* Every request answered for the order was answered with an error.
OnlyErrors(orderRef) ==
    /\ \E a \in responses : a.orderRef = orderRef
    /\ \A a \in responses : a.orderRef = orderRef => a.status >= 400

\* C35: generate-for-order and convert requests that end in an error response
\* leave the store as it was: once the requests of an order have all been
\* answered with errors, no reservation and no expectation of it is stored.
C35_NothingLeft ==
    (Quiet("INV1") /\ OnlyErrors("INV1")) =>
        /\ \A r \in unique_amounts : r.order_reference # "INV1"
        /\ \A e \in payment_expectations : e.order_reference # "INV1"

(***************************************************************************)
(* Properties of the callback and the row it reports.                      *)
(***************************************************************************)
\* C36: at the moment a callback is emitted for an order reference, the
\* stored expectation of that reference is completed, whatever registration
\* of the same order runs alongside the matcher.
C36_CompletedAtCallback ==
    [][\A i \in DOMAIN callbacks' \ DOMAIN callbacks :
          \E e \in payment_expectations' :
              /\ e.order_reference = callbacks'[i].order_reference
              /\ e.status = "completed"]_vars

\* The matcher of slot p runs its UPDATE in this step (worker build).
UpdatesStatus(p) == procs[p].pc = "match_update" /\ procs'[p] # procs[p]

\* C37: the matcher's UPDATE is applied only to an expectation that is
\* pending at that moment, and two handlers working on different
\* notifications of one amount emit the callback of an expectation once.
C37_PendingOnly ==
    /\ [][\A p \in Procs : UpdatesStatus(p) =>
            \A e \in payment_expectations :
                e.id = procs[p].matched[1].id => e.status = "pending"]_vars
    /\ [](\A i, j \in DOMAIN callbacks : callbacks[i].id = callbacks[j].id => i = j)

(***************************************************************************)
(* Properties of the status poll.                                          *)
(***************************************************************************)
\* The poll of slot p marks the stored expectation e completed in this step.
PollCompletes(p, e) ==
    /\ procs[p].pc = "poll_update"
    /\ procs'[p] # procs[p]
    /\ e.id = procs[p].matched[1].id
    /\ e.status = "pending"

\* The notification was received at or after the registration that wrote e.
ReceivedSince(n, e) ==
    \E t1 \in PollInstants, t2 \in PollInstants :
        n.created_at = datetime(t1) /\ e.created_at = toISOString(t2) /\ t1 >= t2

\* C38: the status poll marks a pending expectation completed only when a
\* notification naming the order with its amount was received after the
\* expectation was last registered.
C38_ReceivedAfter ==
    [][\A p \in Procs : \A e \in payment_expectations :
          PollCompletes(p, e) =>
              \E n \in notifications :
                  /\ like(n.text, e.order_reference)
                  /\ columnMatches(n.amount_detected, e.expected_amount)
                  /\ ReceivedSince(n, e)]_vars

(***************************************************************************)
(* Properties of the expected amounts of disambiguated orders.             *)
(***************************************************************************)
\* The expectation was registered with disambiguation and the reservation of
\* its unique amount is active.
Reserved(e) ==
    \E r \in unique_amounts :
        /\ r.order_reference = e.order_reference
        /\ r.unique_amount = e.unique_amount
        /\ Active(r)

\* Two expectations of distinct orders and one original amount, both with an
\* active reservation.
Twins(e1, e2) ==
    /\ e1.order_reference # e2.order_reference
    /\ e1.original_amount = e2.original_amount
    /\ Reserved(e1)
    /\ Reserved(e2)

\* C39 as stated: two distinct orders registered with disambiguation and the
\* same original amount have different expected amounts while both
\* reservations are active.
C39_Distinct ==
    \A e1 \in payment_expectations, e2 \in payment_expectations :
        Twins(e1, e2) => e1.expected_amount # e2.expected_amount

\* C39: two distinct orders registered with disambiguation and the same
\* original amount, one that parseInt reads as a number, have different
\* expected amounts while both reservations are active.
C39_DistinctNumeric ==
    \A e1 \in payment_expectations, e2 \in payment_expectations :
        (Twins(e1, e2) /\ parseInt(e1.original_amount) # NaN)
            => e1.expected_amount # e2.expected_amount

\* Both orders are registered on the base amount 50, with the two values of
\* the pool.
C39_Witness ==
    \E e1 \in payment_expectations, e2 \in payment_expectations :
        /\ Twins(e1, e2)
        /\ e1.original_amount = "50"
        /\ e1.expected_amount = "51"
        /\ e2.expected_amount = "52"

====
